---- MODULE Spec2Model ----
(***************************************************************************)
(* Model of the libipld in-memory block store and its alias map            *)
(* (src/src/mem.rs), the block validator (src/src/block.rs), the garbage   *)
(* collection helpers (src/src/gc.rs), the typed cache                     *)
(* (src/src/cache.rs) and Store::query (src/src/store.rs).                 *)
(*                                                                         *)
(* A HashMap is a function whose DOMAIN is the set of keys that have an    *)
(* entry.  A Result is a record with an "err" field ("Ok" on success).     *)
(* A panic inside a store call (the unwrap in InnerStore::remove) leaves   *)
(* the store as mutated so far and ends the run: `panicked` is set and no  *)
(* operation is enabled any more.  Where the locks are modelled the panic  *)
(* ends the task only: its guard is dropped and the other task goes on.    *)
(***************************************************************************)
EXTENDS Integers, Sequences, FiniteSets, TLC

\* ---------------------------------------------------------------- bounds
MaxPins == 2        \* cap on a pin count (guards of the pinning operations)
MaxBatch == 2       \* longest batch handed to insert_batch
MaxSeq == 2         \* pins (and unpins) in one pin/unpin sequence
MaxTx == 1          \* values staged in one typed transaction
MaxDepth == 2       \* nesting depth of the values handed to references
MaxCalls == 3       \* alias and unalias calls in one run of the alias map
MaxPath == 3        \* segments of the path handed to query

\* ------------------------------------------------------------- universe
\* MAX_BLOCK_SIZE scaled to the model's block lengths.
MAX_BLOCK_SIZE == 2

\* A CID is (codec, multihash digest); one hash algorithm.
Cid(codec, hash) == [codec |-> codec, hash |-> hash]

CidA == Cid("DagCbor", 1)
CidB == Cid("DagCbor", 2)
CidC == Cid("DagCbor", 3)
CidR == Cid("Raw", 4)
CidP == Cid("DagPb", 1)

CborCids == {CidA, CidB, CidC}
Cids == CborCids \cup {CidR, CidP}

\* Block bytes.  `cbor` says whether the bytes are well-formed DAG-CBOR,
\* `name` and `links` are what they decode to, `len` is data.len().
\* The three well-formed values are those of test_gc, with c linking to
\* both a and b.
DataA == [name |-> "a", links |-> {}, cbor |-> TRUE, len |-> 1]
DataB == [name |-> "b", links |-> {CidA}, cbor |-> TRUE, len |-> 2]
DataC == [name |-> "c", links |-> {CidA, CidB}, cbor |-> TRUE, len |-> 2]
DataX == [name |-> "x", links |-> {}, cbor |-> FALSE, len |-> 1]
DataBig == [name |-> "big", links |-> {}, cbor |-> TRUE, len |-> 3]

Datas == {DataA, DataB, DataC, DataX, DataBig}

Block(cid, data) == [cid |-> cid, data |-> data]

\* The multihash digest of a byte string (collision free on Datas).
digest(data) ==
    CASE data = DataA -> 1
      [] data = DataB -> 2
      [] data = DataC -> 3
      [] data = DataX -> 4
      [] OTHER -> 5

\* block.rs validate
validate(cid, data) ==
    IF data.len > MAX_BLOCK_SIZE THEN "BlockToLarge"
    ELSE IF digest(data) # cid.hash THEN "InvalidHash"
    ELSE "Ok"

\* An Ipld value is a record with its `kind`.  A List and a Map hold their
\* contained values in `items` (for a Map in the order of its keys, which play
\* no part in what follows), a Link holds its `cid`.
Link(cid) == [kind |-> "Link", cid |-> cid]
List(items) == [kind |-> "List", items |-> items]
Map(name, items) == [kind |-> "Map", name |-> name, items |-> items]
IpldBool == [kind |-> "Bool"]

\* The links of a block as the values of the map it decodes to.
RECURSIVE link_items(_)
link_items(cids) ==
    IF cids = {} THEN <<>>
    ELSE LET c == CHOOSE x \in cids : \A y \in cids : x.hash <= y.hash
         IN <<Link(c)>> \o link_items(cids \ {c})

\* What block bytes decode to: a map with the links, or raw bytes.
IpldMap(data) == Map(data.name, link_items(data.links))
IpldBytes(data) == [kind |-> "Bytes", name |-> data.name]

\* block.rs decode_ipld: dispatch on the codec of the CID.
decode_ipld(cid, data) ==
    IF cid.codec = "DagCbor"
    THEN IF data.cbor THEN [err |-> "Ok", ipld |-> IpldMap(data)]
         ELSE [err |-> "CodecError", ipld |-> IpldBytes(data)]
    ELSE IF cid.codec = "Raw"
    THEN [err |-> "Ok", ipld |-> IpldBytes(data)]
    ELSE [err |-> "UnsupportedCodec", ipld |-> IpldBytes(data)]

\* Ipld::iter: the value itself, then each contained value recursively, in
\* pre-order.
RECURSIVE iter(_)
RECURSIVE iter_items(_)
iter(ipld) ==
    IF ipld.kind \in {"List", "Map"} THEN <<ipld>> \o iter_items(ipld.items) ELSE <<ipld>>

iter_items(items) ==
    IF items = <<>> THEN <<>> ELSE iter(Head(items)) \o iter_items(Tail(items))

\* references that looks at the value and at what it holds directly.
references_TopLevel(ipld) ==
    LET nodes == IF ipld.kind \in {"List", "Map"} THEN <<ipld>> \o ipld.items ELSE <<ipld>>
    IN {nodes[i].cid : i \in {j \in 1..Len(nodes) : nodes[j].kind = "Link"}}

\* gc.rs references: the CIDs of the Links that iter yields, as a set.
references(ipld) ==
    LET nodes == iter(ipld)
    IN {nodes[i].cid : i \in {j \in 1..Len(nodes) : nodes[j].kind = "Link"}}

\* --------------------------------------------------------- map helpers
MapGet(m, k, default) == IF k \in DOMAIN m THEN m[k] ELSE default
MapInsert(m, k, v) == [x \in DOMAIN m \cup {k} |-> IF x = k THEN v ELSE m[x]]
MapRemove(m, k) == [x \in DOMAIN m \ {k} |-> m[x]]
EmptyMap == [x \in {} |-> 0]

\* ------------------------------------------------------ InnerStore
EmptyStore == [blocks |-> EmptyMap, refs |-> EmptyMap,
               referers |-> EmptyMap, pins |-> EmptyMap]

\* InnerStore::get
get(s, cid) ==
    IF cid \in DOMAIN s.blocks
    THEN [err |-> "Ok", data |-> s.blocks[cid]]
    ELSE [err |-> "BlockNotFound", data |-> DataX]

\* InnerStore::add_referer
add_referer(s, cid, n) ==
    [s EXCEPT !.referers = MapInsert(@, cid, MapGet(@, cid, 0) + n)]

\* InnerStore::pin
pin(s, cid) ==
    [s EXCEPT !.pins = MapInsert(@, cid, MapGet(@, cid, 0) + 1)]

RECURSIVE add_referers(_, _)
add_referers(s, cids) ==
    IF cids = {} THEN s
    ELSE LET c == CHOOSE x \in cids : TRUE
         IN add_referers(add_referer(s, c, 1), cids \ {c})

\* insert_block without the contains_key early return.
insert_block_NoPresenceCheck(s, cid, data) ==
    LET dec == decode_ipld(cid, data) IN
    IF dec.err # "Ok" THEN [err |-> "Other", st |-> s]
    ELSE LET rs == references(dec.ipld)
             s1 == add_referers(s, rs)
         IN [err |-> "Ok",
             st |-> [s1 EXCEPT !.refs = MapInsert(@, cid, rs),
                               !.blocks = MapInsert(@, cid, data)]]

\* InnerStore::insert_block
insert_block(s, cid, data) ==
    IF cid \in DOMAIN s.blocks THEN [err |-> "Ok", st |-> s]
    ELSE LET dec == decode_ipld(cid, data) IN
         IF dec.err # "Ok" THEN [err |-> "Other", st |-> s]
         ELSE LET rs == references(dec.ipld)
                  s1 == add_referers(s, rs)
              IN [err |-> "Ok",
                  st |-> [s1 EXCEPT !.refs = MapInsert(@, cid, rs),
                                    !.blocks = MapInsert(@, cid, data)]]

\* A variant of insert that pins only a newly admitted block.
insert_PinOnlyNew(s, cid, data) ==
    LET r == insert_block(s, cid, data) IN
    IF r.err # "Ok" THEN r
    ELSE [err |-> "Ok", st |-> IF cid \in DOMAIN s.blocks THEN r.st ELSE pin(r.st, cid)]

\* InnerStore::insert: insert_block, then pin, also when the block was present.
insert(s, cid, data) ==
    LET r == insert_block(s, cid, data) IN
    IF r.err # "Ok" THEN r ELSE [err |-> "Ok", st |-> pin(r.st, cid)]

\* InnerStore::insert_batch: the blocks are inserted in order; the first
\* failing block ends the call with what was inserted before it.
RECURSIVE insert_batch_from(_, _, _)
insert_batch_from(s, batch, i) ==
    IF i > Len(batch)
    THEN IF Len(batch) = 0 THEN [err |-> "EmptyBatch", st |-> s, cid |-> CidP]
         ELSE [err |-> "Ok", st |-> s, cid |-> batch[Len(batch)].cid]
    ELSE LET r == insert_block(s, batch[i].cid, batch[i].data) IN
         IF r.err # "Ok" THEN [err |-> r.err, st |-> r.st, cid |-> batch[i].cid]
         ELSE insert_batch_from(r.st, batch, i + 1)

\* insert_batch that pins the block whose CID it returns.
insert_batch_PinLast(s, batch) ==
    LET r == insert_batch_from(s, batch, 1)
    IN IF r.err = "Ok" THEN [r EXCEPT !.st = pin(r.st, r.cid)] ELSE r

\* InnerStore::insert_batch
insert_batch(s, batch) == insert_batch_from(s, batch, 1)

\* InnerStore::remove.  The result is the set of outcomes over the
\* iteration orders of the HashSet refs: each outcome is the store and
\* whether refs.remove(cid).unwrap() panicked on the way.
RECURSIVE remove(_, _)
RECURSIVE remove_refs(_, _)
\* remove that looks at the pin count only.
remove_IgnoreReferers(s, cid) ==
    LET npins == MapGet(s.pins, cid, 0)
    IN IF npins < 1
       THEN LET s1 == [s EXCEPT !.blocks = MapRemove(@, cid)] IN
            IF cid \notin DOMAIN s.refs
            THEN {[st |-> s1, panic |-> TRUE]}
            ELSE remove_refs([s1 EXCEPT !.refs = MapRemove(@, cid)], s.refs[cid])
       ELSE {[st |-> s, panic |-> FALSE]}

remove(s, cid) ==
    LET npins == MapGet(s.pins, cid, 0)
        nreferers == MapGet(s.referers, cid, 0)
    IN IF nreferers < 1 /\ npins < 1
       THEN LET s1 == [s EXCEPT !.blocks = MapRemove(@, cid)] IN
            IF cid \notin DOMAIN s.refs
            THEN {[st |-> s1, panic |-> TRUE]}
            ELSE remove_refs([s1 EXCEPT !.refs = MapRemove(@, cid)], s.refs[cid])
       ELSE {[st |-> s, panic |-> FALSE]}

remove_refs(s, rest) ==
    IF rest = {} THEN {[st |-> s, panic |-> FALSE]}
    ELSE UNION { UNION { IF o.panic THEN {o} ELSE remove_refs(o.st, rest \ {c})
                         : o \in remove(add_referer(s, c, -1), c) }
                 : c \in rest }

\* unpin that keeps the pin entry only while the count is above 2.
unpin_OffByOne(s, cid) ==
    IF cid \in DOMAIN s.pins
    THEN LET npins == s.pins[cid]
             s1 == [s EXCEPT !.pins = MapRemove(@, cid)]
         IN IF npins > 2
            THEN {[st |-> [s1 EXCEPT !.pins = MapInsert(@, cid, npins - 1)],
                   panic |-> FALSE]}
            ELSE remove(s1, cid)
    ELSE {[st |-> s, panic |-> FALSE]}

\* unpin that drops the last pin without calling remove.
unpin_NoRemove(s, cid) ==
    IF cid \in DOMAIN s.pins
    THEN LET npins == s.pins[cid]
             s1 == [s EXCEPT !.pins = MapRemove(@, cid)]
         IN IF npins > 1
            THEN {[st |-> [s1 EXCEPT !.pins = MapInsert(@, cid, npins - 1)],
                   panic |-> FALSE]}
            ELSE {[st |-> s1, panic |-> FALSE]}
    ELSE {[st |-> s, panic |-> FALSE]}

\* InnerStore::unpin
unpin(s, cid) ==
    IF cid \in DOMAIN s.pins
    THEN LET npins == s.pins[cid]
             s1 == [s EXCEPT !.pins = MapRemove(@, cid)]
         IN IF npins > 1
            THEN {[st |-> [s1 EXCEPT !.pins = MapInsert(@, cid, npins - 1)],
                   panic |-> FALSE]}
            ELSE remove(s1, cid)
    ELSE {[st |-> s, panic |-> FALSE]}

\* ------------------------------------------------------------ state
VARIABLES
    inner,      \* MemStore.inner: the InnerStore behind the RwLock
    aliases,    \* MemStore.aliases: HashMap from alias name to Cid
    panicked,   \* a store call panicked; the run has ended
    closed,     \* history: every block admitted so far had all its link
                \* targets present when it was inserted
    last,       \* history: the last completed call and its result
    sym,        \* the pin/unpin sequence under way on one CID, if any
    cache,      \* IpldCache.cache: the SizedCache, most recently used first
    tx,         \* the typed Transaction being built, if any
    task,       \* the cache get and the cache commit in flight, if any
    rw,         \* the RwLock around MemStore.inner: its writer and its readers
    calls,      \* the MemStore call each task has under way, if any
    stable,     \* history: the InnerStore as the last finished write call left it
    gc,         \* the closure or dead_paths call under way, if any
    it,         \* the value handed to references and the set it returned
    alog,       \* history: the alias and unalias calls made so far
    fresh,      \* history: the entries a finished cache commit put into the
                \* cache, each with the other CIDs put into the cache after it,
                \* while these are fewer than the capacity
    qry,        \* the Store::query call under way and the blocks it reads
    lk          \* the cache mutex, the alias RwLock and what each task is
                \* doing in the call it has under way

vars == <<inner, aliases, panicked, closed, last, sym, cache, tx, task, rw, calls, stable, gc, it, fresh, alog, qry, lk>>

Names == {"root"}
\* The tasks that share one MemStore (it is Clone: two handles on the same Arcs).
Tasks == {1, 2}

\* `removed`: the blocks the call removed; `absent`: the block asked for was
\* not in the store at any time during the call.
NoCall == [op |-> "none", cid |-> CidP, data |-> DataX, err |-> "Ok",
           removed |-> {}, absent |-> FALSE]
Call(op, cid, data, err, removed) ==
    [op |-> op, cid |-> cid, data |-> data, err |-> err, removed |-> removed,
     absent |-> FALSE]

present(s) == DOMAIN s.blocks

NoSym == [on |-> FALSE, cid |-> CidP, data |-> DataX, snap |-> EmptyStore,
          np |-> 0, nu |-> 0, balanced |-> TRUE]

NoTx == [open |-> FALSE, blocks |-> <<>>, pins |-> {}, unpins |-> {}, cache |-> <<>>]

IdleGet == [pc |-> "idle", cid |-> CidP, value |-> IpldBytes(DataX), absent |-> FALSE]
IdleCommit == [pc |-> "idle", cache |-> <<>>]
NoTask == [get |-> IdleGet, commit |-> IdleCommit]

\* Blocks that may be put into a batch.
BatchPool == {Block(CidA, DataA), Block(CidB, DataB), Block(CidC, DataX)}

RECURSIVE SeqsUpTo(_, _)
SeqsUpTo(S, n) ==
    IF n = 0 THEN {<<>>}
    ELSE LET shorter == SeqsUpTo(S, n - 1)
         IN shorter \cup {Append(q, x) : q \in {r \in shorter : Len(r) = n - 1}, x \in S}

Batches == SeqsUpTo(BatchPool, MaxBatch)

\* Does admitting (cid, data) into s link to a block that is not there?
dangles(s, cid, data) ==
    /\ cid \notin DOMAIN s.blocks
    /\ decode_ipld(cid, data).err = "Ok"
    /\ \E t \in references(decode_ipld(cid, data).ipld) : t \notin DOMAIN s.blocks

\* The RwLock with nobody holding it, and a task with no call under way.
NoLock == [writer |-> 0, readers |-> {}]
IdleCall == [pc |-> "idle", op |-> "none", cid |-> CidP, data |-> DataX, batch |-> <<>>,
             i |-> 0, work |-> <<>>, snap |-> EmptyStore, err |-> "Ok", ret |-> CidP,
             got |-> get(EmptyStore, CidP)]

NoRefs == [pc |-> "idle", value |-> IpldBool, out |-> {}]

NoGc == [pc |-> "idle", fn |-> "none", roots |-> {}, all_cids |-> {}, stack |-> <<>>,
         cur |-> {}, set |-> {}, again |-> FALSE, first |-> {}, dead |-> {}]

\* No query under way.
NoQuery == [pc |-> "idle", store |-> EmptyMap, root |-> CidP, path |-> <<>>, i |-> 0,
            ipld |-> IpldBool, err |-> "Ok"]

\* Every lock free and every task between two calls.
NoLocks == [mutex |-> 0, alias |-> NoLock,
            pc |-> [t \in Tasks |-> "idle"], sec |-> [t \in Tasks |-> "none"],
            cid |-> [t \in Tasks |-> CidP], val |-> [t \in Tasks |-> IpldBytes(DataX)],
            out |-> [t \in Tasks |-> "none"], n |-> 0]

Init ==
    /\ inner = EmptyStore
    /\ aliases = EmptyMap
    /\ panicked = FALSE
    /\ closed = TRUE
    /\ last = NoCall
    /\ sym = NoSym
    /\ cache = <<>>
    /\ tx = NoTx
    /\ task = NoTask
    /\ rw = NoLock
    /\ calls = [t \in Tasks |-> IdleCall]
    /\ stable = EmptyStore
    /\ gc = NoGc
    /\ it = NoRefs
    /\ fresh = {}
    /\ qry = NoQuery
    /\ lk = NoLocks
    /\ alog = <<>>

\* MemStore::insert
Insert(cid, data) ==
    /\ ~panicked
    /\ MapGet(inner.pins, cid, 0) < MaxPins
    /\ LET r == insert(inner, cid, data) IN
       /\ inner' = r.st
       /\ last' = Call("insert", cid, data, r.err, {})
    /\ closed' = (closed /\ ~dangles(inner, cid, data))
    /\ UNCHANGED <<aliases, panicked, sym, cache, tx, task, rw, calls, stable, gc, it, fresh, alog, qry, lk>>

RECURSIVE batch_dangles(_, _, _)
batch_dangles(s, batch, i) ==
    IF i > Len(batch) THEN FALSE
    ELSE \/ dangles(s, batch[i].cid, batch[i].data)
         \/ LET r == insert_block(s, batch[i].cid, batch[i].data)
            IN r.err = "Ok" /\ batch_dangles(r.st, batch, i + 1)

\* MemStore::insert_batch
InsertBatch(batch) ==
    /\ ~panicked
    /\ LET r == insert_batch(inner, batch) IN
       /\ inner' = r.st
       /\ last' = Call("insert_batch", r.cid, DataX, r.err, {})
    /\ closed' = (closed /\ ~batch_dangles(inner, batch, 1))
    /\ UNCHANGED <<aliases, panicked, sym, cache, tx, task, rw, calls, stable, gc, it, fresh, alog, qry, lk>>

\* MemStore::unpin
Unpin(cid) ==
    /\ ~panicked
    /\ \E o \in unpin(inner, cid) :
         /\ inner' = o.st
         /\ panicked' = o.panic
         /\ last' = Call("unpin", cid, DataX, IF o.panic THEN "panic" ELSE "Ok",
                         present(inner) \ present(o.st))
    /\ UNCHANGED <<aliases, closed, sym, cache, tx, task, rw, calls, stable, gc, it, fresh, alog, qry, lk>>

\* The alias map: HashMap::insert in MemStore::alias.  The call always
\* returns Ok.
alias(m, name, cid) == MapInsert(m, name, cid)

\* unalias that clears the whole alias map.
unalias_Clear(m, name) == [x \in (DOMAIN m \cap {name}) \ {name} |-> m[x]]

\* The alias map: HashMap::remove in MemStore::unalias.
unalias(m, name) == MapRemove(m, name)

\* MemStore::resolve: aliases.get(alias).cloned()
resolve(m, name) ==
    IF name \in DOMAIN m THEN [some |-> TRUE, cid |-> m[name]]
    ELSE [some |-> FALSE, cid |-> CidP]

\* MemStore::alias
Alias(name, cid) ==
    /\ ~panicked
    /\ aliases' = alias(aliases, name, cid)
    /\ last' = Call("alias", cid, DataX, "Ok", {})
    /\ UNCHANGED <<inner, panicked, closed, sym, cache, tx, task, rw, calls, stable, gc, it, fresh, alog, qry, lk>>

\* MemStore::unalias
Unalias(name) ==
    /\ ~panicked
    /\ aliases' = unalias(aliases, name)
    /\ last' = Call("unalias", CidP, DataX, "Ok", {})
    /\ UNCHANGED <<inner, panicked, closed, sym, cache, tx, task, rw, calls, stable, gc, it, fresh, alog, qry, lk>>

\* Blocks handed to insert: the honest blocks (the CID is the digest of the
\* data), blocks that fail to decode, and forged blocks whose data does not
\* hash to the CID (CidA carrying a link to itself, CidB carrying oversized
\* data).
InsertPool ==
    {Block(CidA, DataA), Block(CidB, DataB), Block(CidC, DataC), Block(CidR, DataX),
     Block(CidC, DataX), Block(CidP, DataA),
     Block(CidA, DataB), Block(CidB, DataBig)}

AliasTargets == {CidA, CidB}

Next ==
    \/ \E b \in InsertPool : Insert(b.cid, b.data)
    \/ \E batch \in Batches : InsertBatch(batch)
    \/ \E cid \in Cids : Unpin(cid)
    \/ \E name \in Names, cid \in AliasTargets : Alias(name, cid)
    \/ \E name \in Names : Unalias(name)

Spec == Init /\ [][Next]_vars

\* insert and unpin only, with arbitrary (cid, data) arguments.
NextGC ==
    \/ \E cid \in CborCids, data \in Datas : Insert(cid, data)
    \/ \E cid \in CborCids : Unpin(cid)

SpecGC == Init /\ [][NextGC]_vars

\* insert and insert_batch only, with arbitrary (cid, data) arguments.
AnyBatches == SeqsUpTo({Block(CidA, DataB), Block(CidB, DataA), Block(CidR, DataBig)}, MaxBatch)

NextIns ==
    \/ \E cid \in Cids, data \in Datas : Insert(cid, data)
    \/ \E batch \in AnyBatches : InsertBatch(batch)

SpecIns == Init /\ [][NextIns]_vars

\* ------------------------------------------- pin/unpin sequences
\* The data a caller holds for cid: the stored bytes, else the honest block.
DataOf(s, cid) ==
    IF cid \in DOMAIN s.blocks THEN s.blocks[cid]
    ELSE CHOOSE d \in Datas : digest(d) = cid.hash

SymCids == CborCids \cup {CidR}

\* Start a sequence of pins and unpins of cid from the current store.
SymBegin(cid) ==
    /\ ~panicked /\ ~sym.on
    /\ sym' = [on |-> TRUE, cid |-> cid, data |-> DataOf(inner, cid), snap |-> inner,
               np |-> 0, nu |-> 0, balanced |-> TRUE]
    /\ last' = NoCall
    /\ UNCHANGED <<inner, aliases, panicked, closed, cache, tx, task, rw, calls, stable, gc, it, fresh, alog, qry, lk>>

\* A pin of the sequence: MemStore::insert of the block (InnerStore::pin is
\* reached through insert only).
SymPin ==
    /\ ~panicked /\ sym.on /\ sym.np < MaxSeq
    /\ inner' = insert(inner, sym.cid, sym.data).st
    /\ sym' = [sym EXCEPT !.np = @ + 1]
    /\ UNCHANGED <<aliases, panicked, closed, last, cache, tx, task, rw, calls, stable, gc, it, fresh, alog, qry, lk>>

\* An unpin of the sequence: MemStore::unpin.
SymUnpin ==
    /\ ~panicked /\ sym.on /\ sym.nu < MaxSeq
    /\ \E o \in unpin(inner, sym.cid) :
         /\ inner' = o.st
         /\ panicked' = o.panic
    /\ sym' = [sym EXCEPT !.nu = @ + 1, !.balanced = @ /\ (sym.nu + 1 <= sym.np)]
    /\ UNCHANGED <<aliases, closed, last, cache, tx, task, rw, calls, stable, gc, it, fresh, alog, qry, lk>>

NextSym ==
    \/ ~sym.on /\ \E b \in InsertPool : Insert(b.cid, b.data)
    \/ ~sym.on /\ \E batch \in Batches : InsertBatch(batch)
    \/ ~sym.on /\ \E cid \in Cids : Unpin(cid)
    \/ \E cid \in SymCids : SymBegin(cid)
    \/ SymPin
    \/ SymUnpin

SpecSym == Init /\ [][NextSym]_vars

\* ------------------------------------------------------ typed cache
\* Capacity of the SizedCache.
CacheSize == 1

\* block.rs decode_cbor: the typed decode under DagCborCodec.
decode_cbor(cid, data) ==
    IF cid.codec # "DagCbor" THEN [err |-> "UnsupportedCodec", value |-> IpldBytes(data)]
    ELSE IF ~data.cbor THEN [err |-> "CodecError", value |-> IpldBytes(data)]
    ELSE [err |-> "Ok", value |-> IpldMap(data)]

\* The DAG-CBOR bytes of a value.
write_cbor(value) == CHOOSE d \in Datas : d.cbor /\ IpldMap(d) = value

\* block.rs create_cbor_block: encode, check the size, hash.
create_cbor_block(value) ==
    LET data == write_cbor(value) IN
    IF data.len > MAX_BLOCK_SIZE
    THEN [err |-> "BlockToLarge", block |-> Block(CidP, data)]
    ELSE [err |-> "Ok", block |-> Block(Cid("DagCbor", digest(data)), data)]

\* The values a caller stages in a transaction.
Values == {IpldMap(DataA), IpldMap(DataB), IpldMap(DataBig)}

\* SizedCache: a sequence of entries, most recently used first.
Entry(cid, value) == [cid |-> cid, value |-> value]
cache_index(c, cid) ==
    IF \E i \in 1..Len(c) : c[i].cid = cid
    THEN CHOOSE i \in 1..Len(c) : c[i].cid = cid
    ELSE 0
Without(c, i) == SubSeq(c, 1, i - 1) \o SubSeq(c, i + 1, Len(c))

\* SizedCache::cache_get: a hit moves the entry to the front.
cache_get(c, cid) ==
    LET i == cache_index(c, cid) IN
    IF i = 0 THEN [hit |-> FALSE, value |-> IpldBytes(DataX), cache |-> c]
    ELSE [hit |-> TRUE, value |-> c[i].value, cache |-> <<c[i]>> \o Without(c, i)]

\* cache_set that evicts the entry it has just put in.
cache_set_EvictNewest(c, cid, value) ==
    LET i == cache_index(c, cid)
        rest == IF i = 0 THEN c ELSE Without(c, i)
        full == <<Entry(cid, value)>> \o rest
    IN IF Len(full) > CacheSize THEN SubSeq(full, 2, CacheSize + 1) ELSE full

\* SizedCache::cache_set: insert or replace at the front, evict the least
\* recently used entry when the capacity is exceeded.
cache_set(c, cid, value) ==
    LET i == cache_index(c, cid)
        rest == IF i = 0 THEN c ELSE Without(c, i)
        full == <<Entry(cid, value)>> \o rest
    IN IF Len(full) > CacheSize THEN SubSeq(full, 1, CacheSize) ELSE full

RECURSIVE cache_set_all(_, _, _)
cache_set_all(c, staged, i) ==
    IF i > Len(staged) THEN c
    ELSE cache_set_all(cache_set(c, staged[i].cid, staged[i].value), staged, i + 1)

\* Store::commit of the raw transaction: admit the created blocks, then
\* apply the pins, then the unpins; a failing block rejects the transaction
\* and leaves the store as it was.
RECURSIVE commit_blocks(_, _, _)
commit_blocks(s, blocks, i) ==
    IF i > Len(blocks) THEN [err |-> "Ok", st |-> s]
    ELSE LET r == insert_block(s, blocks[i].cid, blocks[i].data) IN
         IF r.err # "Ok" THEN r ELSE commit_blocks(r.st, blocks, i + 1)

RECURSIVE pin_all(_, _)
pin_all(s, cids) ==
    IF cids = {} THEN s
    ELSE LET c == CHOOSE x \in cids : TRUE IN pin_all(pin(s, c), cids \ {c})

RECURSIVE unpin_all(_, _)
unpin_all(s, cids) ==
    IF cids = {} THEN {[st |-> s, panic |-> FALSE]}
    ELSE UNION { UNION { IF o.panic THEN {o} ELSE unpin_all(o.st, cids \ {c})
                         : o \in unpin(s, c) }
                 : c \in cids }

commit(s, t) ==
    LET r == commit_blocks(s, t.blocks, 1) IN
    IF r.err # "Ok" THEN {[err |-> r.err, st |-> s, panic |-> FALSE]}
    ELSE {[err |-> IF o.panic THEN "panic" ELSE "Ok", st |-> o.st, panic |-> o.panic]
          : o \in unpin_all(pin_all(r.st, t.pins), t.unpins)}

\* The history of the committed entries after cache_set(cid, ..): cid is one
\* more CID put after every other entry; an entry with CacheSize CIDs put
\* after it may have been evicted and is dropped from the history.
put_after(f, cid) ==
    {e \in {[x EXCEPT !.after = @ \cup ({cid} \ {x.cid})] : x \in f} :
        Cardinality(e.after) < CacheSize}

\* The history after the loop of IpldCache::commit over the staged entries.
RECURSIVE staged_fresh(_, _, _)
staged_fresh(f, staged, i) ==
    IF i > Len(staged) THEN f
    ELSE staged_fresh(put_after(f, staged[i].cid)
                      \cup {[cid |-> staged[i].cid, value |-> staged[i].value, after |-> {}]},
                      staged, i + 1)

\* Cache::transaction
TxBegin ==
    /\ ~panicked /\ ~tx.open
    /\ tx' = [NoTx EXCEPT !.open = TRUE]
    /\ UNCHANGED <<inner, aliases, panicked, closed, last, sym, cache, task, rw, calls, stable, gc, it, fresh, alog, qry, lk>>

\* Transaction::insert that puts the value into the shared cache at once.
TxInsert_WriteThrough(value) ==
    /\ ~panicked /\ tx.open /\ Len(tx.blocks) < MaxTx
    /\ LET r == create_cbor_block(value) IN
       /\ r.err = "Ok"
       /\ tx' = [tx EXCEPT !.blocks = Append(@, r.block),
                           !.cache = Append(@, Entry(r.block.cid, value))]
       /\ cache' = cache_set(cache, r.block.cid, value)
    /\ UNCHANGED <<inner, aliases, panicked, closed, last, sym, task, rw, calls, stable, gc, it, fresh, alog, qry, lk>>

\* Transaction::insert
TxInsert(value) ==
    /\ ~panicked /\ tx.open /\ Len(tx.blocks) < MaxTx
    /\ LET r == create_cbor_block(value) IN
       /\ r.err = "Ok"
       /\ tx' = [tx EXCEPT !.blocks = Append(@, r.block),
                           !.cache = Append(@, Entry(r.block.cid, value))]
    /\ UNCHANGED <<inner, aliases, panicked, closed, last, sym, cache, task, rw, calls, stable, gc, it, fresh, alog, qry, lk>>

TxCids == {tx.blocks[i].cid : i \in 1..Len(tx.blocks)}

\* Transaction::pin
TxPin(cid) ==
    /\ ~panicked /\ tx.open /\ cid \in TxCids \ tx.pins
    /\ tx' = [tx EXCEPT !.pins = @ \cup {cid}]
    /\ UNCHANGED <<inner, aliases, panicked, closed, last, sym, cache, task, rw, calls, stable, gc, it, fresh, alog, qry, lk>>

\* Transaction::unpin
TxUnpin(cid) ==
    /\ ~panicked /\ tx.open /\ cid \notin tx.unpins /\ cid \notin tx.pins
    /\ tx' = [tx EXCEPT !.unpins = @ \cup {cid}]
    /\ UNCHANGED <<inner, aliases, panicked, closed, last, sym, cache, task, rw, calls, stable, gc, it, fresh, alog, qry, lk>>

\* Transaction::update: the new CID is to be pinned and the old one, if
\* there is one, unpinned.
TxUpdate(old, new) ==
    /\ ~panicked /\ tx.open /\ new \in TxCids \ tx.pins
    /\ old \cap (tx.unpins \cup tx.pins \cup {new}) = {}
    /\ tx' = [tx EXCEPT !.pins = @ \cup {new}, !.unpins = @ \cup old]
    /\ UNCHANGED <<inner, aliases, panicked, closed, last, sym, cache, task, rw, calls, stable, gc, it, fresh, alog, qry, lk>>

\* The transaction goes out of scope without a commit.
TxDrop ==
    /\ ~panicked /\ tx.open
    /\ tx' = NoTx
    /\ UNCHANGED <<inner, aliases, panicked, closed, last, sym, cache, task, rw, calls, stable, gc, it, fresh, alog, qry, lk>>

\* IpldCache::commit that puts the staged entries into the cache before it
\* calls store.commit.
CommitStore_FillFirst ==
    /\ ~panicked /\ tx.open /\ task.commit.pc = "idle"
    /\ \A c \in tx.pins : MapGet(inner.pins, c, 0) < MaxPins
    /\ \E o \in commit(inner, tx) :
         /\ inner' = o.st
         /\ panicked' = o.panic
         /\ IF o.err = "Ok"
            THEN /\ task' = [task EXCEPT !.commit = [pc |-> "fill", cache |-> tx.cache]]
                 /\ UNCHANGED last
            ELSE /\ last' = Call("cache_commit", CidP, DataX, o.err,
                                 present(inner) \ present(o.st))
                 /\ UNCHANGED task
    /\ tx' = NoTx
    /\ cache' = cache_set_all(cache, tx.cache, 1)
    /\ UNCHANGED <<aliases, closed, sym, rw, calls, stable, gc, it, fresh, alog, qry, lk>>

\* IpldCache::commit, up to the return of store.commit
CommitStore ==
    /\ ~panicked /\ tx.open /\ task.commit.pc = "idle"
    /\ \A c \in tx.pins : MapGet(inner.pins, c, 0) < MaxPins
    /\ \E o \in commit(inner, tx) :
         /\ inner' = o.st
         /\ panicked' = o.panic
         /\ IF o.err = "Ok"
            THEN /\ task' = [task EXCEPT !.commit = [pc |-> "fill", cache |-> tx.cache]]
                 /\ UNCHANGED last
            ELSE /\ last' = Call("cache_commit", CidP, DataX, o.err,
                                 present(inner) \ present(o.st))
                 /\ UNCHANGED task
    /\ tx' = NoTx
    /\ UNCHANGED <<aliases, closed, sym, cache, rw, calls, stable, gc, it, fresh, alog, qry, lk>>

\* IpldCache::commit, the staged entries are put into the cache
CommitFill ==
    /\ ~panicked /\ task.commit.pc = "fill"
    /\ cache' = cache_set_all(cache, task.commit.cache, 1)
    /\ task' = [task EXCEPT !.commit = IdleCommit]
    /\ last' = Call("cache_commit", CidP, DataX, "Ok", {})
    /\ fresh' = staged_fresh(fresh, task.commit.cache, 1)
    /\ UNCHANGED <<inner, aliases, panicked, closed, sym, tx, rw, calls, stable, gc, it, alog, qry, lk>>

CallGet(cid, err, absent) ==
    [Call("cache_get", cid, DataX, err, {}) EXCEPT !.absent = absent]

\* IpldCache::get, the lookup under the cache mutex
CacheGetLookup(cid) ==
    /\ ~panicked /\ task.get.pc = "idle"
    /\ LET r == cache_get(cache, cid) IN
       /\ cache' = r.cache
       /\ IF r.hit
          THEN /\ last' = CallGet(cid, "Ok", cid \notin present(inner))
               /\ UNCHANGED task
          ELSE /\ task' = [task EXCEPT !.get = [pc |-> "fetch", cid |-> cid,
                                                value |-> r.value,
                                                absent |-> cid \notin present(inner)]]
               /\ UNCHANGED last
    /\ UNCHANGED <<inner, aliases, panicked, closed, sym, tx, rw, calls, stable, gc, it, fresh, alog, qry, lk>>

\* IpldCache::get, store.get and the decode after a miss
CacheGetFetch ==
    /\ ~panicked /\ task.get.pc = "fetch"
    /\ LET g == get(inner, task.get.cid)
           d == decode_cbor(task.get.cid, g.data)
           absent == task.get.absent /\ g.err # "Ok"
       IN IF g.err # "Ok"
          THEN /\ last' = CallGet(task.get.cid, g.err, absent)
               /\ task' = [task EXCEPT !.get = IdleGet]
          ELSE IF d.err # "Ok"
          THEN /\ last' = CallGet(task.get.cid, d.err, absent)
               /\ task' = [task EXCEPT !.get = IdleGet]
          ELSE /\ task' = [task EXCEPT !.get.pc = "fill", !.get.value = d.value,
                                       !.get.absent = absent]
               /\ UNCHANGED last
    /\ UNCHANGED <<inner, aliases, panicked, closed, sym, cache, tx, rw, calls, stable, gc, it, fresh, alog, qry, lk>>

\* IpldCache::get, the value is put into the cache and returned
CacheGetFill ==
    /\ ~panicked /\ task.get.pc = "fill"
    /\ cache' = cache_set(cache, task.get.cid, task.get.value)
    /\ last' = CallGet(task.get.cid, "Ok", task.get.absent)
    /\ task' = [task EXCEPT !.get = IdleGet]
    /\ fresh' = put_after(fresh, task.get.cid)
    /\ UNCHANGED <<inner, aliases, panicked, closed, sym, tx, rw, calls, stable, gc, it, alog, qry, lk>>

\* The block inserted into the store directly, past the cache.
CachePool == {Block(CidA, DataA)}

NextCache ==
    \/ TxBegin
    \/ \E value \in Values : TxInsert(value)
    \/ \E cid \in CborCids : TxPin(cid)
    \/ \E cid \in {CidB} : TxUnpin(cid)
    \/ \E old \in {{}, {CidA}}, new \in {CidB} : TxUpdate(old, new)
    \/ TxDrop
    \/ CommitStore
    \/ CommitFill
    \/ \E cid \in {CidA, CidB} : CacheGetLookup(cid)
    \/ CacheGetFetch
    \/ CacheGetFill
    \/ \E b \in CachePool : Insert(b.cid, b.data)
    \/ \E cid \in {CidA} : Unpin(cid)

SpecCache == Init /\ [][NextCache]_vars

\* ------------------------------------------- concurrent store calls
\* Every MemStore call is a future that takes the RwLock around `inner`
\* (read for get, write for insert, insert_batch and unpin), runs the
\* InnerStore method and drops the guard when it returns.  The InnerStore
\* methods are modelled in the steps in which they mutate the maps, so a
\* task that got at `inner` without the lock would see them part-way.

\* A read lock that is granted whoever holds the lock.
can_read_DuringWrite(l) == l.writer \in Tasks \cup {0}

\* RwLock::read is granted while no writer holds the lock.
can_read(l) == l.writer = 0

\* RwLock::write is granted while nobody holds the lock.
can_write(l) == l.writer = 0 /\ l.readers = {}

is_write(op) == op \in {"insert", "insert_batch", "unpin"}

\* The orders in which a HashSet may be iterated.
RECURSIVE Orders(_)
Orders(S) ==
    IF S = {} THEN {<<>>}
    ELSE UNION {{<<x>> \o q : q \in Orders(S \ {x})} : x \in S}

ConcPool == {Block(CidA, DataA), Block(CidB, DataB), Block(CidC, DataC)}
ConcBatches == SeqsUpTo({Block(CidA, DataA), Block(CidB, DataB), Block(CidC, DataX)}, MaxBatch)
ConcCids == {CidA, CidB, CidC}

\* Inserts of cid that were called and have not pinned yet.
pending_pins(cid) ==
    Cardinality({t \in Tasks : calls[t].op = "insert" /\ calls[t].cid = cid
                               /\ calls[t].pc \in {"wait", "locked", "pin"}})

\* A task calls a MemStore method: the future waits for the lock.
CallStart(t, op, cid, data, batch) ==
    /\ ~panicked
    /\ calls[t].pc = "idle"
    /\ op = "insert" => MapGet(inner.pins, cid, 0) + pending_pins(cid) < MaxPins
    /\ calls' = [calls EXCEPT ![t] = [IdleCall EXCEPT !.pc = "wait", !.op = op,
                                      !.cid = cid, !.data = data, !.batch = batch]]
    /\ UNCHANGED <<inner, aliases, panicked, closed, last, sym, cache, tx, task, rw, stable, gc, it, fresh, alog, qry, lk>>

\* self.inner.read().await / self.inner.write().await
Acquire(t) ==
    /\ ~panicked
    /\ calls[t].pc = "wait"
    /\ IF is_write(calls[t].op)
       THEN can_write(rw) /\ rw' = [rw EXCEPT !.writer = t]
       ELSE can_read(rw) /\ rw' = [rw EXCEPT !.readers = @ \cup {t}]
    /\ calls' = [calls EXCEPT ![t].pc = "locked", ![t].snap = inner, ![t].i = 1]
    /\ UNCHANGED <<inner, aliases, panicked, closed, last, sym, cache, tx, task, stable, gc, it, fresh, alog, qry, lk>>

\* InnerStore::get under the read guard
GetRead(t) ==
    /\ ~panicked
    /\ calls[t].pc = "locked" /\ calls[t].op = "get"
    /\ calls' = [calls EXCEPT ![t].pc = "unlock", ![t].got = get(inner, calls[t].cid),
                              ![t].err = get(inner, calls[t].cid).err]
    /\ UNCHANGED <<inner, aliases, panicked, closed, last, sym, cache, tx, task, rw, stable, gc, it, fresh, alog, qry, lk>>

\* InnerStore::insert, first half: insert_block(cid, data)?
InsertBlockStep(t) ==
    /\ ~panicked
    /\ calls[t].pc = "locked" /\ calls[t].op = "insert"
    /\ LET r == insert_block(inner, calls[t].cid, calls[t].data) IN
       /\ inner' = r.st
       /\ calls' = [calls EXCEPT ![t].pc = IF r.err = "Ok" THEN "pin" ELSE "unlock",
                                 ![t].err = r.err]
    /\ UNCHANGED <<aliases, panicked, closed, last, sym, cache, tx, task, rw, stable, gc, it, fresh, alog, qry, lk>>

\* InnerStore::insert, second half: pin(cid)
InsertPinStep(t) ==
    /\ ~panicked
    /\ calls[t].pc = "pin"
    /\ inner' = pin(inner, calls[t].cid)
    /\ calls' = [calls EXCEPT ![t].pc = "unlock"]
    /\ UNCHANGED <<aliases, panicked, closed, last, sym, cache, tx, task, rw, stable, gc, it, fresh, alog, qry, lk>>

\* insert_batch that returns the CID of the first block of the batch.
BatchStep_ReturnFirst(t) ==
    /\ ~panicked
    /\ calls[t].pc = "locked" /\ calls[t].op = "insert_batch"
    /\ LET c == calls[t]
           n == Len(c.batch)
       IN IF n = 0
          THEN /\ calls' = [calls EXCEPT ![t].pc = "unlock", ![t].err = "EmptyBatch"]
               /\ UNCHANGED inner
          ELSE LET b == c.batch[c.i]
                   r == insert_block(inner, b.cid, b.data)
               IN /\ inner' = r.st
                  /\ calls' = [calls EXCEPT
                        ![t].pc = IF r.err # "Ok" \/ c.i = n THEN "unlock" ELSE "locked",
                        ![t].err = r.err,
                        ![t].ret = c.batch[1].cid,
                        ![t].i = c.i + 1]
    /\ UNCHANGED <<aliases, panicked, closed, last, sym, cache, tx, task, rw, stable, gc, it, fresh, alog, qry, lk>>

\* InnerStore::insert_batch: one turn of the loop over the batch, or the
\* return after it.
BatchStep(t) ==
    /\ ~panicked
    /\ calls[t].pc = "locked" /\ calls[t].op = "insert_batch"
    /\ LET c == calls[t]
           n == Len(c.batch)
       IN IF n = 0
          THEN /\ calls' = [calls EXCEPT ![t].pc = "unlock", ![t].err = "EmptyBatch"]
               /\ UNCHANGED inner
          ELSE LET b == c.batch[c.i]
                   r == insert_block(inner, b.cid, b.data)
               IN /\ inner' = r.st
                  /\ calls' = [calls EXCEPT
                        ![t].pc = IF r.err # "Ok" \/ c.i = n THEN "unlock" ELSE "locked",
                        ![t].err = r.err,
                        ![t].ret = b.cid,
                        ![t].i = c.i + 1]
    /\ UNCHANGED <<aliases, panicked, closed, last, sym, cache, tx, task, rw, stable, gc, it, fresh, alog, qry, lk>>

\* InnerStore::unpin up to the call of remove: the pin entry is taken out
\* and put back lowered while the block keeps another pin.
UnpinStep(t) ==
    /\ ~panicked
    /\ calls[t].pc = "locked" /\ calls[t].op = "unpin"
    /\ LET cid == calls[t].cid IN
       IF cid \notin DOMAIN inner.pins
       THEN /\ calls' = [calls EXCEPT ![t].pc = "unlock"]
            /\ UNCHANGED inner
       ELSE IF inner.pins[cid] > 1
       THEN /\ inner' = [inner EXCEPT !.pins = MapInsert(@, cid, inner.pins[cid] - 1)]
            /\ calls' = [calls EXCEPT ![t].pc = "unlock"]
       ELSE /\ inner' = [inner EXCEPT !.pins = MapRemove(@, cid)]
            /\ calls' = [calls EXCEPT ![t].pc = "cascade",
                                      ![t].work = <<[cid |-> cid, dec |-> FALSE]>>]
    /\ UNCHANGED <<aliases, panicked, closed, last, sym, cache, tx, task, rw, stable, gc, it, fresh, alog, qry, lk>>

\* InnerStore::remove, one call of the recursion.  `work` is the call stack:
\* its head is the CID remove is called on next, `dec` tells that the call
\* comes from the loop over refs and is preceded by add_referer(cid, -1).
\* The unwrap of refs.remove panics when the CID has no refs entry; the
\* guard is dropped while the panic unwinds.
CascadeStep(t) ==
    /\ ~panicked
    /\ calls[t].pc = "cascade"
    /\ LET x == Head(calls[t].work)
           rest == Tail(calls[t].work)
           s1 == IF x.dec THEN add_referer(inner, x.cid, -1) ELSE inner
       IN IF MapGet(s1.referers, x.cid, 0) < 1 /\ MapGet(s1.pins, x.cid, 0) < 1
          THEN LET s2 == [s1 EXCEPT !.blocks = MapRemove(@, x.cid)] IN
               IF x.cid \notin DOMAIN s1.refs
               THEN /\ inner' = s2
                    /\ panicked' = TRUE
                    /\ calls' = [calls EXCEPT ![t].pc = "panicked", ![t].err = "panic"]
                    /\ rw' = NoLock
                    /\ stable' = s2
               ELSE \E ord \in Orders(s1.refs[x.cid]) :
                    LET more == [k \in 1..Len(ord) |-> [cid |-> ord[k], dec |-> TRUE]]
                    IN /\ inner' = [s2 EXCEPT !.refs = MapRemove(@, x.cid)]
                       /\ calls' = [calls EXCEPT
                             ![t].pc = IF more \o rest = <<>> THEN "unlock" ELSE "cascade",
                             ![t].work = more \o rest]
                       /\ UNCHANGED <<panicked, rw, stable>>
          ELSE /\ inner' = s1
               /\ calls' = [calls EXCEPT
                     ![t].pc = IF rest = <<>> THEN "unlock" ELSE "cascade",
                     ![t].work = rest]
               /\ UNCHANGED <<panicked, rw, stable>>
    /\ UNCHANGED <<aliases, closed, last, sym, cache, tx, task, gc, it, fresh, alog, qry, lk>>

\* The call returns: the guard is dropped and the task is free again.
Release(t) ==
    /\ ~panicked
    /\ calls[t].pc = "unlock"
    /\ IF is_write(calls[t].op)
       THEN rw' = [rw EXCEPT !.writer = 0] /\ stable' = inner
       ELSE rw' = [rw EXCEPT !.readers = @ \ {t}] /\ UNCHANGED stable
    /\ calls' = [calls EXCEPT ![t] = IdleCall]
    /\ UNCHANGED <<inner, aliases, panicked, closed, last, sym, cache, tx, task, gc, it, fresh, alog, qry, lk>>

NextConc ==
    \/ \E t \in Tasks, c \in ConcCids : CallStart(t, "get", c, DataX, <<>>)
    \/ \E t \in Tasks, b \in ConcPool : CallStart(t, "insert", b.cid, b.data, <<>>)
    \/ \E t \in Tasks, batch \in ConcBatches : CallStart(t, "insert_batch", CidP, DataX, batch)
    \/ \E t \in Tasks, c \in ConcCids : CallStart(t, "unpin", c, DataX, <<>>)
    \/ \E t \in Tasks : Acquire(t)
    \/ \E t \in Tasks : GetRead(t)
    \/ \E t \in Tasks : InsertBlockStep(t)
    \/ \E t \in Tasks : InsertPinStep(t)
    \/ \E t \in Tasks : BatchStep(t)
    \/ \E t \in Tasks : UnpinStep(t)
    \/ \E t \in Tasks : CascadeStep(t)
    \/ \E t \in Tasks : Release(t)

SpecConc == Init /\ [][NextConc]_vars

\* ---------------------------------------------------- gc: closure
\* The store contents closure and dead_paths are run on.  Next to the
\* blocks of test_gc there is the chain of test_closure (d links to b, b to
\* a), a forged block under CidA that links to CidA itself, and a raw block.
\* Every block decodes: insert_block admits no other.
DataD == [name |-> "d", links |-> {CidB}, cbor |-> TRUE, len |-> 2]

GcCids == {CidA, CidB, CidC, CidR}

GcContents ==
    {a \cup b \cup c \cup r :
        a \in {{}, {Block(CidA, DataA)}, {Block(CidA, DataB)}},
        b \in {{}, {Block(CidB, DataB)}},
        c \in {{}, {Block(CidC, DataC)}, {Block(CidC, DataD)}},
        r \in {{}, {Block(CidR, DataX)}}}

\* The InnerStore after the blocks bs were inserted into an empty store.
StoreWith(bs) == insert_batch(EmptyStore, CHOOSE q \in Orders(bs) : TRUE).st

GcStores == {StoreWith(bs) : bs \in GcContents}

\* StoreIpldExt::read_ipld: get, then decode_ipld; a missing block is None.
read_ipld(s, cid) ==
    LET g == get(s, cid) IN
    IF g.err # "Ok" THEN [err |-> "Ok", some |-> FALSE, ipld |-> IpldBytes(DataX)]
    ELSE LET d == decode_ipld(cid, g.data)
         IN [err |-> d.err, some |-> d.err = "Ok", ipld |-> d.ipld]

\* The body of closure's inner loop that never pushes the references.
closure_visit_NoPush(s, st, cid) ==
    IF cid \in st.set THEN st
    ELSE LET r == read_ipld(s, cid) IN
         IF r.err # "Ok" THEN [st EXCEPT !.err = r.err]
         ELSE [st EXCEPT !.set = @ \cup {cid}]

\* The body of closure's inner loop that pushes the references of the roots
\* only (of the CIDs visited while the stack is empty).
closure_visit_OneLevel(s, st, cid) ==
    IF cid \in st.set THEN st
    ELSE LET r == read_ipld(s, cid) IN
         IF r.err # "Ok" THEN [st EXCEPT !.err = r.err]
         ELSE [st EXCEPT !.stack = IF r.some /\ st.stack = <<>>
                                   THEN Append(@, references(r.ipld)) ELSE @,
                         !.set = @ \cup {cid}]

\* closure, the body of the loop over the drained frontier: a CID already
\* in the set is passed over; the references of a block that is there are
\* pushed as a new frontier; the CID joins the set.
closure_visit(s, st, cid) ==
    IF cid \in st.set THEN st
    ELSE LET r == read_ipld(s, cid) IN
         IF r.err # "Ok" THEN [st EXCEPT !.err = r.err]
         ELSE [st EXCEPT !.stack = IF r.some THEN Append(@, references(r.ipld)) ELSE @,
                         !.set = @ \cup {cid}]

\* dead_paths that returns all_cids as they are.
dead_of_KeepLive(all_cids, live) == all_cids \cup (live \ live)

\* dead_paths: all_cids.difference(&live)
dead_of(all_cids, live) == all_cids \ live

InitClosure ==
    /\ inner \in GcStores
    /\ aliases = EmptyMap
    /\ panicked = FALSE
    /\ closed = TRUE
    /\ last = NoCall
    /\ sym = NoSym
    /\ cache = <<>>
    /\ tx = NoTx
    /\ task = NoTask
    /\ rw = NoLock
    /\ calls = [t \in Tasks |-> IdleCall]
    /\ stable = EmptyStore
    /\ gc = NoGc
    /\ it = NoRefs
    /\ fresh = {}
    /\ qry = NoQuery
    /\ lk = NoLocks
    /\ alog = <<>>

\* closure(store, roots) or dead_paths(store, all_cids, roots) is called:
\* stack = vec![roots], set is empty.
GcCall(fn, all_cids, roots) ==
    /\ gc.pc = "idle"
    /\ gc' = [NoGc EXCEPT !.pc = "run", !.fn = fn, !.roots = roots,
                          !.all_cids = all_cids, !.stack = <<roots>>]
    /\ UNCHANGED <<inner, aliases, panicked, closed, last, sym, cache, tx, task, rw, calls, stable, it, fresh, alog, qry, lk>>

\* while let Some(roots) = stack.pop(): the next frontier is taken, or the
\* loop ends and closure returns the set (dead_paths goes on to the
\* difference).
ClosurePop ==
    /\ gc.pc = "run" /\ gc.cur = {}
    /\ IF gc.stack = <<>>
       THEN gc' = [gc EXCEPT !.pc = "done",
                             !.dead = IF gc.fn = "dead_paths"
                                      THEN dead_of(gc.all_cids, gc.set) ELSE {}]
       ELSE gc' = [gc EXCEPT !.cur = gc.stack[Len(gc.stack)],
                             !.stack = SubSeq(gc.stack, 1, Len(gc.stack) - 1)]
    /\ UNCHANGED <<inner, aliases, panicked, closed, last, sym, cache, tx, task, rw, calls, stable, it, fresh, alog, qry, lk>>

\* for cid in roots.drain(): one CID of the frontier, in any order.
ClosureVisit(cid) ==
    /\ gc.pc = "run" /\ cid \in gc.cur
    /\ LET st == closure_visit(inner, [stack |-> gc.stack, set |-> gc.set, err |-> "Ok"], cid)
       IN gc' = [gc EXCEPT !.pc = IF st.err = "Ok" THEN "run" ELSE "failed",
                           !.cur = @ \ {cid},
                           !.stack = st.stack,
                           !.set = st.set]
    /\ UNCHANGED <<inner, aliases, panicked, closed, last, sym, cache, tx, task, rw, calls, stable, it, fresh, alog, qry, lk>>

\* closure is called once more, on the set it has just returned.
ClosureAgain ==
    /\ gc.pc = "done" /\ gc.fn = "closure" /\ ~gc.again
    /\ gc' = [gc EXCEPT !.pc = "run", !.again = TRUE, !.first = gc.set,
                        !.stack = <<gc.set>>, !.set = {}]
    /\ UNCHANGED <<inner, aliases, panicked, closed, last, sym, cache, tx, task, rw, calls, stable, it, fresh, alog, qry, lk>>

\* The result is dropped.
GcReturn ==
    /\ gc.pc \in {"done", "failed"}
    /\ gc' = NoGc
    /\ UNCHANGED <<inner, aliases, panicked, closed, last, sym, cache, tx, task, rw, calls, stable, it, fresh, alog, qry, lk>>

NextClosure ==
    \/ \E roots \in SUBSET GcCids : GcCall("closure", {}, roots)
    \/ \E all_cids \in SUBSET GcCids, roots \in SUBSET GcCids : GcCall("dead_paths", all_cids, roots)
    \/ ClosurePop
    \/ \E cid \in GcCids : ClosureVisit(cid)
    \/ ClosureAgain
    \/ GcReturn

SpecClosure == InitClosure /\ [][NextClosure]_vars

\* The CIDs reachable from roots over the links of the blocks in the store.
RECURSIVE reachable(_, _)
reachable(s, roots) ==
    LET step == roots \cup UNION {references(decode_ipld(c, s.blocks[c]).ipld) :
                                  c \in roots \cap DOMAIN s.blocks}
    IN IF step = roots THEN roots ELSE reachable(s, step)

\* ------------------------------------------------- gc: references
\* The values references is run on: a Bool, a Link, and lists and maps that
\* hold a value next to at most one leaf, nested up to MaxDepth.
IpldLeaves == {IpldBool, Link(CidA), Link(CidB), Link(CidC)}

Wraps(v) ==
    {List(<<v>>), Map("m", <<v>>)}
    \cup {List(<<l, v>>) : l \in IpldLeaves} \cup {List(<<v, l>>) : l \in IpldLeaves}
    \cup {Map("m", <<l, v>>) : l \in IpldLeaves} \cup {Map("m", <<v, l>>) : l \in IpldLeaves}

RECURSIVE IpldValues(_)
IpldValues(depth) ==
    IF depth = 0 THEN IpldLeaves
    ELSE LET inside == IpldValues(depth - 1)
         IN inside \cup {List(<<>>)} \cup UNION {Wraps(v) : v \in inside}

InitRefs ==
    /\ inner = EmptyStore
    /\ aliases = EmptyMap
    /\ panicked = FALSE
    /\ closed = TRUE
    /\ last = NoCall
    /\ sym = NoSym
    /\ cache = <<>>
    /\ tx = NoTx
    /\ task = NoTask
    /\ rw = NoLock
    /\ calls = [t \in Tasks |-> IdleCall]
    /\ stable = EmptyStore
    /\ gc = NoGc
    /\ it \in {[NoRefs EXCEPT !.value = v] : v \in IpldValues(MaxDepth)}
    /\ fresh = {}
    /\ qry = NoQuery
    /\ lk = NoLocks
    /\ alog = <<>>

\* references(&ipld)
References ==
    /\ it.pc = "idle"
    /\ it' = [it EXCEPT !.pc = "done", !.out = references(it.value)]
    /\ UNCHANGED <<inner, aliases, panicked, closed, last, sym, cache, tx, task, rw, calls, stable, gc, fresh, alog, qry, lk>>

NextRefs == References

SpecRefs == InitRefs /\ [][NextRefs]_vars

\* The CIDs a value links to, by the structure of the value.
RECURSIVE linked(_)
linked(v) ==
    IF v.kind = "Link" THEN {v.cid}
    ELSE IF v.kind \in {"List", "Map"}
    THEN UNION {linked(v.items[i]) : i \in 1..Len(v.items)}
    ELSE {}

\* ------------------------------------------------------- alias map
\* The alias and unalias calls on two names, with the calls kept in a log.
AliasNames == {"root", "head"}

AliasCall(op, name, cid) == [op |-> op, name |-> name, cid |-> cid]

\* MemStore::alias, logged
AliasLogged(name, cid) ==
    /\ ~panicked /\ Len(alog) < MaxCalls
    /\ aliases' = alias(aliases, name, cid)
    /\ last' = Call("alias", cid, DataX, "Ok", {})
    /\ alog' = Append(alog, AliasCall("alias", name, cid))
    /\ UNCHANGED <<inner, panicked, closed, sym, cache, tx, task, rw, calls, stable, gc, it, fresh, qry, lk>>

\* MemStore::unalias, logged
UnaliasLogged(name) ==
    /\ ~panicked /\ Len(alog) < MaxCalls
    /\ aliases' = unalias(aliases, name)
    /\ last' = Call("unalias", CidP, DataX, "Ok", {})
    /\ alog' = Append(alog, AliasCall("unalias", name, CidP))
    /\ UNCHANGED <<inner, panicked, closed, sym, cache, tx, task, rw, calls, stable, gc, it, fresh, qry, lk>>

NextAlias ==
    \/ \E name \in AliasNames, cid \in AliasTargets : AliasLogged(name, cid)
    \/ \E name \in AliasNames : UnaliasLogged(name)

SpecAlias == Init /\ [][NextAlias]_vars

\* What a name is bound to according to the log: the CID of the last alias
\* call on the name unless an unalias call on the name came after it.
RECURSIVE bound_by(_, _)
bound_by(log, name) ==
    IF log = <<>> THEN [some |-> FALSE, cid |-> CidP]
    ELSE LET c == log[Len(log)] IN
         IF c.name # name THEN bound_by(SubSeq(log, 1, Len(log) - 1), name)
         ELSE IF c.op = "alias" THEN [some |-> TRUE, cid |-> c.cid]
         ELSE [some |-> FALSE, cid |-> CidP]

\* The store after insert was called on the blocks of a batch one after the
\* other, in batch order (every call is taken to succeed).
RECURSIVE insert_each(_, _, _)
insert_each(s, batch, i) ==
    IF i > Len(batch) THEN s
    ELSE insert_each(insert(s, batch[i].cid, batch[i].data).st, batch, i + 1)

\* ------------------------------------------------------------- query
\* Ipld::Integer, and Ipld::Map with its keys (items[i] is the value of
\* keys[i]).
Integer(n) == [kind |-> "Integer", n |-> n]
StringMap(keys, items) == [kind |-> "Map", name |-> "m", keys |-> keys, items |-> items]

\* Block bytes that do not decode.
Undecodable == [kind |-> "Undecodable"]

\* A path segment: a map key or a list index.
Key(k) == [kind |-> "key", key |-> k, index |-> 0]
Index(i) == [kind |-> "index", key |-> "", index |-> i]

\* Ipld::get: one step into a map (by key) or a list (by integer).
ipld_get(ipld, segment) ==
    IF segment.kind = "key"
    THEN IF ipld.kind # "Map" THEN [err |-> "NotMap", ipld |-> ipld]
         ELSE LET hits == {i \in 1..Len(ipld.keys) : ipld.keys[i] = segment.key}
              IN IF hits = {} THEN [err |-> "KeyNotFound", ipld |-> ipld]
                 ELSE [err |-> "Ok", ipld |-> ipld.items[CHOOSE i \in hits : TRUE]]
    ELSE IF ipld.kind # "List" THEN [err |-> "NotList", ipld |-> ipld]
         ELSE IF segment.index + 1 > Len(ipld.items)
              THEN [err |-> "IndexNotFound", ipld |-> ipld]
              ELSE [err |-> "Ok", ipld |-> ipld.items[segment.index + 1]]

\* self.get(cid).await?.ipld()?: the block of cid, decoded.
load(store, cid) ==
    IF cid \notin DOMAIN store THEN [err |-> "BlockNotFound", ipld |-> IpldBool]
    ELSE IF store[cid].kind = "Undecodable" THEN [err |-> "CodecError", ipld |-> IpldBool]
    ELSE [err |-> "Ok", ipld |-> store[cid]]

\* What the block of CidA and the block of CidB may decode to.
RootDocs ==
    { StringMap(<<"a">>, <<StringMap(<<"b">>, <<Link(CidB)>>)>>),
      StringMap(<<"a">>, <<List(<<Link(CidB), Integer(1)>>)>>),
      Link(CidB),
      StringMap(<<"a", "b">>, <<Link(CidC), Link(CidA)>>) }

LeafDocs ==
    { StringMap(<<"c">>, <<Integer(7)>>),
      List(<<Integer(7)>>),
      Integer(7),
      Link(CidA),
      StringMap(<<"c">>, <<Link(CidA)>>),
      Undecodable }

\* The stores a query runs on: CidA present, CidB present or not, CidC never.
QueryStores ==
    {MapInsert(EmptyMap, CidA, r) : r \in RootDocs}
    \cup {MapInsert(MapInsert(EmptyMap, CidA, r), CidB, l) : r \in RootDocs, l \in LeafDocs}

Segments == {Key("a"), Key("b"), Key("c"), Index(0), Index(1)}
Paths == SeqsUpTo(Segments, MaxPath)

InitQuery ==
    /\ inner = EmptyStore
    /\ aliases = EmptyMap
    /\ panicked = FALSE
    /\ closed = TRUE
    /\ last = NoCall
    /\ sym = NoSym
    /\ cache = <<>>
    /\ tx = NoTx
    /\ task = NoTask
    /\ rw = NoLock
    /\ calls = [t \in Tasks |-> IdleCall]
    /\ stable = EmptyStore
    /\ gc = NoGc
    /\ it = NoRefs
    /\ alog = <<>>
    /\ fresh = {}
    /\ lk = NoLocks
    /\ qry \in {[NoQuery EXCEPT !.pc = "call", !.store = s, !.root = r, !.path = p] :
                  s \in QueryStores, r \in {CidA, CidB, CidC}, p \in Paths}

\* Store::query, `let mut root = self.get(path.root()).await?.ipld()?`
QueryStart ==
    /\ qry.pc = "call"
    /\ LET r == load(qry.store, qry.root) IN
       IF r.err # "Ok"
       THEN qry' = [qry EXCEPT !.pc = "done", !.err = r.err]
       ELSE qry' = [qry EXCEPT !.pc = "walk", !.ipld = r.ipld, !.i = 1]
    /\ UNCHANGED <<inner, aliases, panicked, closed, last, sym, cache, tx, task, rw, calls, stable, gc, it, fresh, alog, lk>>

\* The loop body without the `if let Ipld::Link(cid) = ipld` reload.
QuerySegment_NoReload ==
    /\ qry.pc = "walk" /\ qry.i <= Len(qry.path)
    /\ LET r == ipld_get(qry.ipld, qry.path[qry.i]) IN
       IF r.err # "Ok"
       THEN qry' = [qry EXCEPT !.pc = "done", !.err = r.err]
       ELSE qry' = [qry EXCEPT !.ipld = r.ipld, !.i = @ + 1]
    /\ UNCHANGED <<inner, aliases, panicked, closed, last, sym, cache, tx, task, rw, calls, stable, gc, it, fresh, alog, lk>>

\* Store::query, one turn of `for segment in path.path().iter()`
QuerySegment ==
    /\ qry.pc = "walk" /\ qry.i <= Len(qry.path)
    /\ LET r == ipld_get(qry.ipld, qry.path[qry.i]) IN
       IF r.err # "Ok"
       THEN qry' = [qry EXCEPT !.pc = "done", !.err = r.err]
       ELSE IF r.ipld.kind = "Link"
       THEN LET l == load(qry.store, r.ipld.cid) IN
            IF l.err # "Ok"
            THEN qry' = [qry EXCEPT !.pc = "done", !.err = l.err]
            ELSE qry' = [qry EXCEPT !.ipld = l.ipld, !.i = @ + 1]
       ELSE qry' = [qry EXCEPT !.ipld = r.ipld, !.i = @ + 1]
    /\ UNCHANGED <<inner, aliases, panicked, closed, last, sym, cache, tx, task, rw, calls, stable, gc, it, fresh, alog, lk>>

\* Store::query, `Ok(ipld.clone())`
QueryReturn ==
    /\ qry.pc = "walk" /\ qry.i > Len(qry.path)
    /\ qry' = [qry EXCEPT !.pc = "done", !.err = "Ok"]
    /\ UNCHANGED <<inner, aliases, panicked, closed, last, sym, cache, tx, task, rw, calls, stable, gc, it, fresh, alog, lk>>

NextQuery ==
    \/ QueryStart
    \/ QuerySegment
    \/ QueryReturn

SpecQuery == InitQuery /\ [][NextQuery]_vars

\* The value a path leads to from a decoded value, every Link met on the way
\* replaced by the decoded block it names.
RECURSIVE follow(_, _, _)
follow(store, ipld, path) ==
    IF path = <<>> THEN [err |-> "Ok", ipld |-> ipld]
    ELSE LET r == ipld_get(ipld, Head(path)) IN
         IF r.err # "Ok" THEN r
         ELSE IF r.ipld.kind # "Link" THEN follow(store, r.ipld, Tail(path))
         ELSE LET l == load(store, r.ipld.cid) IN
              IF l.err # "Ok" THEN l ELSE follow(store, l.ipld, Tail(path))

\* ------------------------------------------------------------- locks
\* The calls of IpldCache and MemStore as sequences of critical sections.
\* A task is idle, waits for the lock of its next section, or holds it; the
\* body of a section runs under the guard and ends with the guard dropped.

\* The lock a section runs under, and whether it is taken for writing.
lock_of(sec) ==
    IF sec \in {"lookup", "fill", "commit_fill"} THEN "cache"
    ELSE IF sec \in {"alias", "unalias", "resolve"} THEN "aliases"
    ELSE "inner"

exclusive(sec) == sec \notin {"fetch", "get", "resolve"}

\* The section a call begins with.
FirstSections == {"lookup", "store_commit", "get", "insert", "insert_batch", "unpin",
                  "alias", "unalias", "resolve"}

\* Mutex::lock, RwLock::read and RwLock::write are granted.
granted(t) ==
    LET sec == lk.sec[t] IN
    IF lock_of(sec) = "cache" THEN lk.mutex = 0
    ELSE IF lock_of(sec) = "aliases"
    THEN IF exclusive(sec) THEN can_write(lk.alias) ELSE can_read(lk.alias)
    ELSE IF exclusive(sec) THEN can_write(rw) ELSE can_read(rw)

\* The blocks and the transaction the calls are made with.
LockPool == {Block(CidA, DataA), Block(CidB, DataB)}
LockData(cid) == (CHOOSE b \in LockPool : b.cid = cid).data
LockBatch == <<Block(CidA, DataA)>>
LockTx == [open |-> TRUE, blocks |-> <<Block(CidB, DataB)>>, pins |-> {CidB},
           unpins |-> {CidA}, cache |-> <<Entry(CidB, IpldMap(DataB))>>]

\* A call is made: the future is created and polled up to its first lock.
LockStart(t, sec, cid) ==
    /\ lk.pc[t] = "idle" /\ lk.out[t] # "panic"
    /\ lk.n < MaxCalls
    /\ lk' = [lk EXCEPT !.pc[t] = "wait", !.sec[t] = sec, !.cid[t] = cid,
                        !.out[t] = "none", !.n = @ + 1]
    /\ UNCHANGED <<inner, aliases, panicked, closed, last, sym, cache, tx, task, rw, calls, stable, gc, it, fresh, alog, qry>>

\* self.cache.lock().await, self.inner.read().await, self.inner.write().await,
\* self.aliases.read().await, self.aliases.write().await
LockAcquire(t) ==
    /\ lk.pc[t] = "wait"
    /\ granted(t)
    /\ LET sec == lk.sec[t] IN
       IF lock_of(sec) = "cache"
       THEN lk' = [lk EXCEPT !.pc[t] = "held", !.mutex = t] /\ UNCHANGED rw
       ELSE IF lock_of(sec) = "aliases"
       THEN /\ lk' = [lk EXCEPT !.pc[t] = "held",
                                !.alias = IF exclusive(sec)
                                          THEN [@ EXCEPT !.writer = t]
                                          ELSE [@ EXCEPT !.readers = @ \cup {t}]]
            /\ UNCHANGED rw
       ELSE /\ lk' = [lk EXCEPT !.pc[t] = "held"]
            /\ rw' = IF exclusive(sec) THEN [rw EXCEPT !.writer = t]
                     ELSE [rw EXCEPT !.readers = @ \cup {t}]
    /\ UNCHANGED <<inner, aliases, panicked, closed, last, sym, cache, tx, task, calls, stable, gc, it, fresh, alog, qry>>

\* IpldCache::get whose first guard lives until the function returns.
CacheLookup_KeepGuard(t) ==
    /\ lk.pc[t] = "held" /\ lk.sec[t] = "lookup"
    /\ LET r == cache_get(cache, lk.cid[t]) IN
       /\ cache' = r.cache
       /\ IF r.hit
          THEN lk' = [lk EXCEPT !.mutex = 0, !.pc[t] = "idle", !.sec[t] = "none",
                                !.out[t] = "Ok"]
          ELSE lk' = [lk EXCEPT !.pc[t] = "wait", !.sec[t] = "fetch"]
    /\ UNCHANGED <<inner, aliases, panicked, closed, last, sym, tx, task, rw, calls, stable, gc, it, fresh, alog, qry>>

\* IpldCache::get, `if let Some(value) = self.cache.lock().await
\* .cache_get(cid).cloned() { return Ok(value); }`: the guard is a temporary
\* of the `if let` and is dropped where the statement ends.
CacheLookup(t) ==
    /\ lk.pc[t] = "held" /\ lk.sec[t] = "lookup"
    /\ LET r == cache_get(cache, lk.cid[t]) IN
       /\ cache' = r.cache
       /\ IF r.hit
          THEN lk' = [lk EXCEPT !.mutex = 0, !.pc[t] = "idle", !.sec[t] = "none",
                                !.out[t] = "Ok"]
          ELSE lk' = [lk EXCEPT !.mutex = 0, !.pc[t] = "wait", !.sec[t] = "fetch"]
    /\ UNCHANGED <<inner, aliases, panicked, closed, last, sym, tx, task, rw, calls, stable, gc, it, fresh, alog, qry>>

\* CacheFetch whose read guard is never dropped.
CacheFetch_KeepGuard(t) ==
    /\ lk.pc[t] = "held" /\ lk.sec[t] = "fetch"
    /\ LET g == get(inner, lk.cid[t])
           d == decode_cbor(lk.cid[t], g.data)
       IN IF g.err # "Ok" \/ d.err # "Ok"
          THEN lk' = [lk EXCEPT !.pc[t] = "idle", !.sec[t] = "none",
                                !.out[t] = IF g.err # "Ok" THEN g.err ELSE d.err]
          ELSE lk' = [lk EXCEPT !.pc[t] = "wait", !.sec[t] = "fill", !.val[t] = d.value]
    /\ UNCHANGED <<inner, aliases, panicked, closed, last, sym, cache, tx, task, rw, calls, stable, gc, it, fresh, alog, qry>>

\* IpldCache::get, `self.store.get(cid).await?` and `block.decode()?`
CacheFetch(t) ==
    /\ lk.pc[t] = "held" /\ lk.sec[t] = "fetch"
    /\ rw' = [rw EXCEPT !.readers = @ \ {t}]
    /\ LET g == get(inner, lk.cid[t])
           d == decode_cbor(lk.cid[t], g.data)
       IN IF g.err # "Ok" \/ d.err # "Ok"
          THEN lk' = [lk EXCEPT !.pc[t] = "idle", !.sec[t] = "none",
                                !.out[t] = IF g.err # "Ok" THEN g.err ELSE d.err]
          ELSE lk' = [lk EXCEPT !.pc[t] = "wait", !.sec[t] = "fill", !.val[t] = d.value]
    /\ UNCHANGED <<inner, aliases, panicked, closed, last, sym, cache, tx, task, calls, stable, gc, it, fresh, alog, qry>>

\* IpldCache::get, `self.cache.lock().await.cache_set(cid, value.clone())`
CacheFill(t) ==
    /\ lk.pc[t] = "held" /\ lk.sec[t] = "fill"
    /\ cache' = cache_set(cache, lk.cid[t], lk.val[t])
    /\ lk' = [lk EXCEPT !.mutex = 0, !.pc[t] = "idle", !.sec[t] = "none", !.out[t] = "Ok"]
    /\ UNCHANGED <<inner, aliases, panicked, closed, last, sym, tx, task, rw, calls, stable, gc, it, fresh, alog, qry>>

\* IpldCache::commit, `self.store.commit(transaction.tx).await?`
CacheCommitStore(t) ==
    /\ lk.pc[t] = "held" /\ lk.sec[t] = "store_commit"
    /\ rw' = [rw EXCEPT !.writer = 0]
    /\ \E o \in commit(inner, LockTx) :
         /\ inner' = o.st
         /\ IF o.err = "Ok"
            THEN lk' = [lk EXCEPT !.pc[t] = "wait", !.sec[t] = "commit_fill"]
            ELSE lk' = [lk EXCEPT !.pc[t] = "idle", !.sec[t] = "none", !.out[t] = o.err]
    /\ UNCHANGED <<aliases, panicked, closed, last, sym, cache, tx, task, calls, stable, gc, it, fresh, alog, qry>>

\* IpldCache::commit, the loop of cache_set under `self.cache.lock().await`
CacheCommitFill(t) ==
    /\ lk.pc[t] = "held" /\ lk.sec[t] = "commit_fill"
    /\ cache' = cache_set_all(cache, LockTx.cache, 1)
    /\ lk' = [lk EXCEPT !.mutex = 0, !.pc[t] = "idle", !.sec[t] = "none", !.out[t] = "Ok"]
    /\ UNCHANGED <<inner, aliases, panicked, closed, last, sym, tx, task, rw, calls, stable, gc, it, fresh, alog, qry>>

\* MemStore::get
StoreGet(t) ==
    /\ lk.pc[t] = "held" /\ lk.sec[t] = "get"
    /\ rw' = [rw EXCEPT !.readers = @ \ {t}]
    /\ lk' = [lk EXCEPT !.pc[t] = "idle", !.sec[t] = "none",
                        !.out[t] = get(inner, lk.cid[t]).err]
    /\ UNCHANGED <<inner, aliases, panicked, closed, last, sym, cache, tx, task, calls, stable, gc, it, fresh, alog, qry>>

\* MemStore::insert, MemStore::insert_batch, MemStore::unpin; a panic unwinds
\* through the write guard and ends the task.
StoreWrite(t) ==
    /\ lk.pc[t] = "held" /\ lk.sec[t] \in {"insert", "insert_batch", "unpin"}
    /\ rw' = [rw EXCEPT !.writer = 0]
    /\ \E o \in IF lk.sec[t] = "insert"
                THEN {insert(inner, lk.cid[t], LockData(lk.cid[t]))}
                ELSE IF lk.sec[t] = "insert_batch"
                THEN {[err |-> r.err, st |-> r.st] : r \in {insert_batch(inner, LockBatch)}}
                ELSE {[err |-> IF u.panic THEN "panic" ELSE "Ok", st |-> u.st] :
                         u \in unpin(inner, lk.cid[t])} :
         /\ inner' = o.st
         /\ lk' = [lk EXCEPT !.pc[t] = "idle", !.sec[t] = "none", !.out[t] = o.err]
    /\ UNCHANGED <<aliases, panicked, closed, last, sym, cache, tx, task, calls, stable, gc, it, fresh, alog, qry>>

\* MemStore::alias, MemStore::unalias, MemStore::resolve
AliasSection(t) ==
    /\ lk.pc[t] = "held" /\ lk.sec[t] \in {"alias", "unalias", "resolve"}
    /\ aliases' = IF lk.sec[t] = "alias" THEN alias(aliases, "root", lk.cid[t])
                  ELSE IF lk.sec[t] = "unalias" THEN unalias(aliases, "root")
                  ELSE aliases
    /\ lk' = [lk EXCEPT !.pc[t] = "idle", !.sec[t] = "none", !.out[t] = "Ok",
                        !.alias = IF lk.sec[t] = "resolve"
                                  THEN [@ EXCEPT !.readers = @ \ {t}]
                                  ELSE [@ EXCEPT !.writer = 0]]
    /\ UNCHANGED <<inner, panicked, closed, last, sym, cache, tx, task, rw, calls, stable, gc, it, fresh, alog, qry>>

\* What a task does once its call is made.
LockStep(t) ==
    \/ LockAcquire(t)
    \/ CacheLookup(t)
    \/ CacheFetch(t)
    \/ CacheFill(t)
    \/ CacheCommitStore(t)
    \/ CacheCommitFill(t)
    \/ StoreGet(t)
    \/ StoreWrite(t)
    \/ AliasSection(t)

NextLock ==
    \/ \E t \in Tasks, sec \in FirstSections, cid \in {CidA, CidB} : LockStart(t, sec, cid)
    \/ \E t \in Tasks : LockStep(t)

SpecLock == Init /\ [][NextLock]_vars

\* Every task that can take a step is given one eventually: the executor
\* polls every woken future, and a released lock wakes its waiters.
SpecLockFair == SpecLock /\ \A t \in Tasks : WF_vars(LockStep(t))

\* The task holds the lock over MemStore.inner, or waits for it.
at_store(t) ==
    \/ rw.writer = t
    \/ t \in rw.readers
    \/ lk.pc[t] = "wait" /\ lock_of(lk.sec[t]) = "inner"

\* ------------------------------------------------------------ claims
retrievable(c) == get(inner, c).err = "Ok"
pinned(c) == MapGet(inner.pins, c, 0) > 0
referred(c) == MapGet(inner.referers, c, 0) > 0
aliased(c) == \E name \in DOMAIN aliases : aliases[name] = c

\* C1 (as claimed): after any sequence of completed store operations, get(c)
\* returns the block iff pins[c] > 0 or referers[c] > 0 or some alias
\* resolves to c.
C1_Retention ==
    ~panicked =>
        \A c \in Cids : retrievable(c) <=> (pinned(c) \/ referred(c) \/ aliased(c))

\* C2 (as claimed): for every block c present in the store and every c' in
\* refs[c], c' is retained and its block is present.
C2_NoDanglingLinks ==
    ~panicked =>
        \A c \in present(inner) : \A t \in inner.refs[c] :
            retrievable(t) /\ (pinned(t) \/ referred(t) \/ aliased(t))

\* C2 (amended): every CID linked from a present block has referers > 0, and
\* a link target that is present stays present for as long as the linking
\* block stays present.
C2_LinkTargetsKept ==
    [][\A c \in present(inner') : \A t \in inner'.refs[c] :
          /\ MapGet(inner'.referers, t, 0) > 0
          /\ (c \in present(inner) /\ t \in present(inner)) => t \in present(inner')]_vars

\* C2 witness: a block that was unpinned stays, with pin count 0, because a
\* present block links to it.
C2_Witness ==
    /\ last.op = "unpin"
    /\ retrievable(last.cid)
    /\ ~pinned(last.cid)
    /\ \E c \in present(inner) : c # last.cid /\ last.cid \in inner.refs[c]

\* C3 (as claimed): an insert_batch that returns an error leaves the store
\* unchanged.
C3_BatchAllOrNothing ==
    [][(last'.op = "insert_batch" /\ last'.err # "Ok") => inner' = inner]_vars

\* C4 (as claimed): every (cid, data) that get returns passes validate.
C4_AddressIntegrity ==
    \A c \in Cids : retrievable(c) => validate(c, get(inner, c).data) = "Ok"

\* C5 (as claimed): while a name stays bound to c, a retrievable block c
\* stays retrievable, whatever is unpinned.
C5_AliasIsPin ==
    [][\A name \in Names : \A c \in Cids :
          (/\ name \in DOMAIN aliases /\ aliases[name] = c
           /\ name \in DOMAIN aliases' /\ aliases'[name] = c
           /\ c \in present(inner)) => c \in present(inner')]_vars

\* C8 (as claimed): inserting the same (cid, data) a second time leaves the
\* store (blocks, refs, referers and pins) as it was after the first insert.
C8_InsertTwiceSameState ==
    [][(last.op = "insert" /\ last.err = "Ok" /\ last' = last) => inner' = inner]_vars

\* C8 (amended): inserting the same (cid, data) a second time leaves blocks,
\* refs and referers unchanged and raises pins[cid] by exactly one.
C8_InsertTwiceAddsOnePin ==
    [][(last.op = "insert" /\ last.err = "Ok" /\ last' = last /\ inner' # inner) =>
          /\ inner'.blocks = inner.blocks
          /\ inner'.refs = inner.refs
          /\ inner'.referers = inner.referers
          /\ inner'.pins = MapInsert(inner.pins, last.cid, MapGet(inner.pins, last.cid, 0) + 1)]_vars

\* C8 witness: a block with links has been inserted twice.
C8_Witness ==
    /\ last.op = "insert" /\ last.err = "Ok"
    /\ MapGet(inner.pins, last.cid, 0) = 2
    /\ inner.refs[last.cid] # {}
    /\ inner.blocks[last.cid] = last.data

\* C10: for insert and unpin with every link target present at insertion, a
\* block is retrievable iff its pin count is > 0 or a retrievable block links
\* to it (so a linked block survives its unpin, and the unpin of the last
\* linking block removes the unpinned target in the same operation).
C10_RetrievableIffPinnedOrLinked ==
    closed =>
        /\ ~panicked
        /\ \A c \in Cids :
             retrievable(c) <=>
                (pinned(c) \/ \E b \in Cids : retrievable(b) /\ c \in inner.refs[b])

\* C10 witness: one unpin removed the unpinned block and a block it linked to.
C10_Witness ==
    /\ closed
    /\ last.op = "unpin"
    /\ last.cid \in last.removed
    /\ Cardinality(last.removed) >= 2

\* The retention state of a store: which blocks are retrievable, and the pin
\* and referer count of every CID (0 for a CID without an entry).
retention(s) ==
    [present |-> DOMAIN s.blocks,
     pins |-> [c \in Cids |-> MapGet(s.pins, c, 0)],
     referers |-> [c \in Cids |-> MapGet(s.referers, c, 0)]]

\* C9 (as claimed): after n pins and n unpins of c in any order the
\* retention state of every CID equals the state before the sequence.
C9_PinUnpinSymmetry ==
    (sym.on /\ sym.np = sym.nu) =>
        ~panicked /\ retention(inner) = retention(sym.snap)

\* C9 (amended): when block c is present and pins[c] > 0 or referers[c] > 0
\* before the sequence, and no prefix of the sequence holds more unpins than
\* pins, the retention state after n pins and n unpins of c equals the state
\* before the sequence.
C9_BalancedPinUnpinSymmetry ==
    (/\ sym.on /\ sym.np = sym.nu /\ sym.balanced
     /\ sym.cid \in DOMAIN sym.snap.blocks
     /\ (MapGet(sym.snap.pins, sym.cid, 0) > 0 \/ MapGet(sym.snap.referers, sym.cid, 0) > 0)) =>
        ~panicked /\ retention(inner) = retention(sym.snap)

\* C9 witness: a completed balanced sequence on a block that is held by a
\* link only, so that its unpin went through remove.
C9_Witness ==
    /\ sym.on /\ sym.np = sym.nu /\ sym.np >= 1 /\ sym.balanced
    /\ sym.cid \in DOMAIN sym.snap.blocks
    /\ MapGet(sym.snap.pins, sym.cid, 0) = 0
    /\ MapGet(sym.snap.referers, sym.cid, 0) > 0

\* C6 (as claimed): a cache get of a cid whose block is not in the store
\* (it was removed by unpin) returns BlockNotFound.
C6_CacheGetAfterRemoval ==
    (last.op = "cache_get" /\ last.absent) => last.err = "BlockNotFound"

\* C7 (as claimed): every entry (cid, v) held in the cache has store.get(cid)
\* succeed and the returned bytes decode to v under the cache's codec.
C7_CacheCoherency ==
    \A i \in 1..Len(cache) :
        /\ retrievable(cache[i].cid)
        /\ decode_cbor(cache[i].cid, get(inner, cache[i].cid).data) =
              [err |-> "Ok", value |-> cache[i].value]

\* C11: re-inserting a CID that is present adds exactly one pin and changes
\* nothing else; an unpin of a block with pin count above 1 only lowers the
\* count (the block and all it links to stay), and the unpin that takes the
\* last pin of a block without referers removes the block.  A pin count is
\* only held by a present block.
C11_ReinsertAddsOnePin ==
    /\ [](\A c \in Cids : pinned(c) => retrievable(c))
    /\ [][LET c == last'.cid
              stepped == last' # last \/ inner' # inner
              onlyPins(n) == /\ inner'.blocks = inner.blocks
                             /\ inner'.refs = inner.refs
                             /\ inner'.referers = inner.referers
                             /\ inner'.pins = MapInsert(inner.pins, c, n)
          IN /\ (last'.op = "insert" /\ last'.err = "Ok" /\ stepped /\ c \in present(inner))
                    => onlyPins(MapGet(inner.pins, c, 0) + 1)
             /\ (last'.op = "unpin" /\ stepped /\ MapGet(inner.pins, c, 0) > 1)
                    => onlyPins(MapGet(inner.pins, c, 0) - 1)
             /\ (last'.op = "unpin" /\ stepped /\ MapGet(inner.pins, c, 0) = 1
                 /\ MapGet(inner.referers, c, 0) < 1)
                    => c \notin present(inner')]_vars

\* C11 witness: a block with links that was inserted twice has been unpinned
\* once and is still there with its link target.
C11_Witness ==
    /\ last.op = "unpin"
    /\ MapGet(inner.pins, last.cid, 0) = 1
    /\ ~referred(last.cid)
    /\ retrievable(last.cid)
    /\ inner.refs[last.cid] # {}
    /\ \A t \in inner.refs[last.cid] : retrievable(t)



\* C12: under every interleaving of concurrent get, insert, insert_batch and
\* unpin calls, a get reads the store only as a finished write call left it
\* (never a batch, an insert or a cascading removal part-way), every write
\* call starts from such a store and leaves it as the InnerStore method run
\* alone on that store would, with the same result: the calls take effect
\* one after the other in the order in which they got the lock.
C12_AtomicStoreCalls ==
    \A t \in Tasks :
      LET c == calls[t] IN
      /\ (c.op = "get" /\ c.pc \in {"locked", "unlock"}) => inner = stable
      /\ (c.op = "get" /\ c.pc = "unlock") => c.got = get(stable, c.cid)
      /\ (is_write(c.op) /\ c.pc = "locked" /\ c.i = 1) => (c.snap = stable /\ inner = stable)
      /\ (c.op = "insert" /\ c.pc = "unlock") =>
            (inner = insert(c.snap, c.cid, c.data).st /\ c.err = insert(c.snap, c.cid, c.data).err)
      /\ (c.op = "insert_batch" /\ c.pc = "unlock") =>
            LET r == insert_batch(c.snap, c.batch)
            IN inner = r.st /\ c.err = r.err /\ (r.err = "Ok" => c.ret = r.cid)
      /\ (c.op = "unpin" /\ c.pc = "unlock") =>
            [st |-> inner, panic |-> FALSE] \in unpin(c.snap, c.cid)
      /\ c.pc = "panicked" => [st |-> inner, panic |-> TRUE] \in unpin(c.snap, c.cid)

\* C12 witness: a batch of two blocks has been inserted and its call is about
\* to return while another task waits for the lock to get one of the blocks
\* the batch added.
C12_Witness ==
    \E t \in Tasks, u \in Tasks :
      /\ t # u
      /\ calls[t].op = "insert_batch" /\ calls[t].pc = "unlock" /\ calls[t].err = "Ok"
      /\ Len(calls[t].batch) = 2
      /\ calls[u].op = "get" /\ calls[u].pc = "wait"
      /\ calls[u].cid \in present(inner) \ present(calls[t].snap)
      /\ present(stable) # present(inner)



\* C13: GC soundness: for every store content, all_cids and roots, dead_paths
\* returns all_cids minus the closure of the roots, and nothing it returns is
\* linked from a present block whose CID is in that closure.
C13_GcSoundness ==
    /\ gc.pc # "failed"
    /\ (gc.pc = "done" /\ gc.fn = "dead_paths") =>
          /\ gc.dead = gc.all_cids \ gc.set
          /\ gc.set = reachable(inner, gc.roots)
          /\ \A d \in gc.dead : \A b \in gc.set \cap present(inner) :
                d \notin references(decode_ipld(b, inner.blocks[b]).ipld)

\* C13 witness: dead_paths has returned a present block as dead while the
\* closure of the roots holds CIDs beyond the roots, one of them in all_cids.
C13_Witness ==
    /\ gc.pc = "done" /\ gc.fn = "dead_paths"
    /\ gc.dead \cap present(inner) # {}
    /\ (gc.set \ gc.roots) \cap gc.all_cids # {}
    /\ gc.roots # {}

\* C14: closure stability: closure(store, closure(store, R)) equals
\* closure(store, R), for every store content and every root set R.
C14_ClosureStable ==
    (gc.pc = "done" /\ gc.again) => gc.set = gc.first

\* C14 witness: closure has been run on its own result, a result that
\* holds more than the roots and a CID whose block is missing.
C14_Witness ==
    /\ gc.pc = "done" /\ gc.again
    /\ gc.first \ gc.roots # {}
    /\ gc.first \ present(inner) # {}

\* C15: closure returns exactly the CIDs reachable from the roots over the
\* links of the blocks present in the store; a CID whose block is missing is
\* in the result when it is a root or linked, is passed over without an
\* error and adds no links.
C15_ClosureIsReachable ==
    /\ gc.fn = "closure" => gc.pc # "failed"
    /\ (gc.pc = "done" /\ gc.fn = "closure") =>
          gc.set = reachable(inner, IF gc.again THEN gc.first ELSE gc.roots)
    /\ (gc.pc = "run" /\ gc.fn = "closure") =>
          gc.set \subseteq reachable(inner, IF gc.again THEN gc.first ELSE gc.roots)

\* C15 witness: the run of test_closure (the root links to a block that
\* links to a third), with the third block missing from the store.
C15_Witness ==
    /\ gc.pc = "done" /\ gc.fn = "closure" /\ ~gc.again
    /\ gc.roots = {CidC}
    /\ CidC \in present(inner) /\ inner.blocks[CidC] = DataD
    /\ CidA \notin present(inner)
    /\ gc.set = {CidA, CidB, CidC}


\* C16: references returns exactly the CIDs that occur as a Link at any
\* nesting depth of the value, inside maps and lists: every linked CID,
\* nothing else, and a CID linked several times once.
C16_ReferencesAreTheLinks ==
    it.pc = "done" =>
        /\ it.out = linked(it.value)
        /\ \A c \in Cids : c \in it.out <=>
              \E i \in 1..Len(iter(it.value)) : iter(it.value)[i] = Link(c)

\* C16 witness: references has run on a list that holds a link and, one
\* level down, the same link again next to another one.
C16_Witness ==
    /\ it.pc = "done"
    /\ it.value = List(<<Link(CidA), List(<<Link(CidA), Link(CidB)>>)>>)
    /\ it.out = {CidA, CidB}



C18_UncommittedIsInvisible ==
    [][(tx' # tx /\ task'.commit = task.commit /\ last' = last /\ ~panicked') =>
          /\ inner' = inner
          /\ cache' = cache
          /\ aliases' = aliases
          /\ \A c \in Cids : cache_get(cache', c).hit = cache_get(cache, c).hit]_vars

\* C18 witness: a transaction that stages a block, a pin and an unpin is open
\* while the staged block is neither in the store nor in the cache and the
\* block to be unpinned is still there and pinned.
C18_Witness ==
    /\ tx.open /\ tx.pins # {} /\ tx.unpins # {}
    /\ \E c \in TxCids : c \notin present(inner) /\ ~cache_get(cache, c).hit
    /\ \E c \in tx.unpins : c \in present(inner) /\ pinned(c)


\* C19: after any sequence of alias and unalias calls, resolve(name) returns
\* the CID of the most recent alias(name, cid) that no unalias(name) followed,
\* and none if there is no such call; a call on one name leaves what every
\* other name resolves to as it was.
C19_AliasStateMachine ==
    /\ [](\A name \in AliasNames : resolve(aliases, name) = bound_by(alog, name))
    /\ [][alog' # alog =>
            \A name \in AliasNames \ {alog'[Len(alog')].name} :
                resolve(aliases', name) = resolve(aliases, name)]_vars

\* C19 witness: "root" was bound, bound again to another CID and unbound
\* while "head" stays bound: the last call was unalias("root").
C19_Witness ==
    /\ Len(alog) = 3
    /\ alog[3] = AliasCall("unalias", "root", CidP)
    /\ alog[1].name = "root" /\ alog[1].op = "alias"
    /\ alog[2] = AliasCall("alias", "head", CidB)
    /\ resolve(aliases, "head") = [some |-> TRUE, cid |-> CidB]
    /\ ~resolve(aliases, "root").some


\* C20: alias(name, cid) succeeds only if cid and every CID transitively
\* reachable from it are present in the store: when the last call is an
\* alias that returned Ok, the closure of its CID is in the store.
C20_AliasNeedsClosure ==
    (last.op = "alias" /\ last.err = "Ok") =>
        reachable(inner, {last.cid}) \subseteq present(inner)


\* C21: insert_batch returns EmptyBatch exactly when the batch is empty, and
\* then leaves the store as it was; for a batch whose blocks are all admitted
\* it returns the CID of the last block, and blocks, refs and referers are
\* those that inserting the blocks one after the other in batch order gives.
C21_BatchIsSequenceOfInserts ==
    \A t \in Tasks :
      LET c == calls[t] IN
      (c.op = "insert_batch" /\ c.pc = "unlock") =>
         /\ (c.err = "EmptyBatch") <=> (c.batch = <<>>)
         /\ (c.batch = <<>>) => (inner = c.snap)
         /\ (c.err = "Ok") =>
               LET seq == insert_each(c.snap, c.batch, 1) IN
               /\ c.ret = c.batch[Len(c.batch)].cid
               /\ inner.blocks = seq.blocks
               /\ inner.refs = seq.refs
               /\ inner.referers = seq.referers

\* C21 witness: a batch of two distinct new blocks, the second linking to the
\* first, has been admitted and the call is about to return.
C21_Witness ==
    \E t \in Tasks :
      /\ calls[t].op = "insert_batch" /\ calls[t].pc = "unlock" /\ calls[t].err = "Ok"
      /\ calls[t].batch = <<Block(CidA, DataA), Block(CidB, DataB)>>
      /\ calls[t].ret = CidB
      /\ present(calls[t].snap) = {}
      /\ MapGet(inner.referers, CidA, 0) = 1



C22_RemovalToleratesMissingTargets ==
    last.op = "unpin" => (last.err = "Ok" /\ ~panicked)

\* The number of present blocks that link to c.
linkers(c) == Cardinality({b \in present(inner) : c \in MapGet(inner.refs, b, {})})

\* C23: referer count consistency: for every CID c, referers[c] (0 without an
\* entry) is the number of present blocks b with c in refs[b], and it is
\* never negative.
C23_ReferersCountLinkers ==
    \A c \in Cids :
        /\ MapGet(inner.referers, c, 0) = linkers(c)
        /\ MapGet(inner.referers, c, 0) >= 0

\* C24: reference counting equals mark-sweep: dead_paths over the CIDs present
\* in the store, with the pinned CIDs and the alias targets as roots, is
\* empty.
C24_NoDeadPaths ==
    dead_of(present(inner),
            reachable(inner, {c \in Cids : pinned(c) \/ aliased(c)})) = {}


\* C25: unpin(c) with a pin count above 1 lowers the count by one and changes
\* nothing else; otherwise (pin count 1 or no pin entry) c has no pin entry
\* afterwards and block c is deleted whenever referers[c] < 1.
C25_UnpinRemovesUnreferenced ==
    [][(last'.op = "unpin" /\ (last' # last \/ inner' # inner)) =>
          LET c == last'.cid IN
          IF MapGet(inner.pins, c, 0) > 1
          THEN inner' = [inner EXCEPT !.pins = MapInsert(@, c, inner.pins[c] - 1)]
          ELSE /\ c \notin DOMAIN inner'.pins
               /\ MapGet(inner.referers, c, 0) < 1 => c \notin present(inner')]_vars

\* C30: insert_batch leaves every pin count as it is; unpin of a CID without a
\* pin entry changes nothing; and a present block without a pin entry leaves
\* the store only in the cascade of an unpin of another CID, as the target of
\* a link of a block removed in it, when that was the last present block
\* linking to it.
C30_BatchDoesNotPin ==
    [][/\ (last'.op = "insert_batch" /\ (last' # last \/ inner' # inner)) =>
             inner'.pins = inner.pins
       /\ (last'.op = "unpin" /\ last'.cid \notin DOMAIN inner.pins) => inner' = inner
       /\ \A c \in present(inner) \ present(inner') :
             c \notin DOMAIN inner.pins =>
                /\ last'.op = "unpin" /\ last'.cid # c
                /\ \E b \in present(inner) \ present(inner') : c \in inner.refs[b]
                /\ \A b \in present(inner') : c \notin inner'.refs[b]]_vars

\* C30 witness: a block admitted through insert_batch only, with pin count 0,
\* has just been removed in the cascade of the unpin of the block that
\* linked to it.
C30_Witness ==
    /\ last.op = "unpin" /\ last.err = "Ok" /\ last.cid = CidB
    /\ last.removed = {CidA, CidB}
    /\ present(inner) = {}
    /\ inner.pins = EmptyMap


\* C27: query(root, segments) yields what the segments, applied in order to
\* the decoded root block, lead to, the traversal going on inside the linked
\* block whenever a segment reaches a Link; the first missing key, index or
\* block is the error of the whole query.  For root = {a: {b: Link(leaf)}}
\* and leaf = {c: 7} the path a/b/c yields 7.
C27_QueryFollowsLinks ==
    qry.pc = "done" =>
       LET root == load(qry.store, qry.root)
           want == IF root.err # "Ok" THEN root ELSE follow(qry.store, root.ipld, qry.path)
       IN /\ qry.err = want.err
          /\ qry.err = "Ok" => qry.ipld = want.ipld
          /\ ( /\ qry.root = CidA
               /\ qry.store[CidA] = StringMap(<<"a">>, <<StringMap(<<"b">>, <<Link(CidB)>>)>>)
               /\ CidB \in DOMAIN qry.store
               /\ qry.store[CidB] = StringMap(<<"c">>, <<Integer(7)>>)
               /\ qry.path = <<Key("a"), Key("b"), Key("c")>> )
             => (qry.err = "Ok" /\ qry.ipld = Integer(7))

\* C27 witness: the path a/b/c has been resolved across the link from the
\* root block to the leaf block.
C27_Witness ==
    /\ qry.pc = "done" /\ qry.err = "Ok" /\ qry.ipld = Integer(7)
    /\ qry.root = CidA
    /\ qry.path = <<Key("a"), Key("b"), Key("c")>>
    /\ qry.store[CidA] = StringMap(<<"a">>, <<StringMap(<<"b">>, <<Link(CidB)>>)>>)


\* C28: no task holds the cache mutex while it waits for or holds a store
\* lock; in cache get the mutex of the lookup is released before store.get
\* and taken again only after the store has returned, and in cache commit
\* the mutex is taken only after store.commit has completed.
C28_CacheLockDiscipline ==
    /\ [](\A t \in Tasks : ~(lk.mutex = t /\ at_store(t)))
    /\ [][\A t \in Tasks :
            /\ (lk.mutex # t /\ lk'.mutex = t) =>
                  /\ lk.sec[t] \in {"lookup", "fill", "commit_fill"}
                  /\ rw.writer # t /\ t \notin rw.readers
            /\ (lk.sec[t] = "lookup" /\ lk'.sec[t] = "fetch") => lk'.mutex # t
            /\ (lk.sec[t] # "fill" /\ lk'.sec[t] = "fill") =>
                  (lk.sec[t] = "fetch" /\ t \notin rw'.readers /\ lk'.mutex # t)
            /\ (lk.sec[t] # "commit_fill" /\ lk'.sec[t] = "commit_fill") =>
                  (lk.sec[t] = "store_commit" /\ rw'.writer # t /\ lk'.mutex # t)]_vars

\* C28 witness: one task is between the missed lookup and the fill of a cache
\* get, holding the read lock of the store, while the other task holds the
\* cache mutex.
C28_Witness ==
    /\ lk.sec[1] = "fetch" /\ lk.pc[1] = "held" /\ 1 \in rw.readers
    /\ lk.mutex = 2

\* C29: under fair scheduling every call that was made returns (or ends in
\* the unwinding of a panic, which drops its guard), and in no state are all
\* tasks with a call under way blocked on a lock.
C29_DeadlockFreedom ==
    /\ [](\A t \in Tasks : lk.pc[t] = "wait" =>
             \E u \in Tasks : lk.pc[u] = "held" \/ (lk.pc[u] = "wait" /\ granted(u)))
    /\ \A t \in Tasks : (lk.pc[t] # "idle") ~> (lk.pc[t] = "idle")

\* C29 witness: task 1 is blocked in unpin on the write lock of the store
\* while task 2 holds the lock as a reader inside a cache get.
C29_Witness ==
    /\ lk.pc[1] = "wait" /\ lk.sec[1] = "unpin" /\ ~granted(1)
    /\ lk.pc[2] = "held" /\ lk.sec[2] = "fetch"

====
